---- MODULE Spec2Model ----
(***************************************************************************)
(* Roster PDF generator: grouping of roster rows, output file naming,      *)
(* export engine selection and the export orchestrator of MainWindow.      *)
(*                                                                         *)
(* Strings are sequences of one-character strings, so that the filename    *)
(* transformations and the ordering of dictionary keys are computed the    *)
(* way the Python code computes them.                                      *)
(*                                                                         *)
(* Handlers of the window run on the UI thread.  A handler is taken to run *)
(* to its end before the next one is invoked (no handler is re-entered     *)
(* from the event processing done inside a running handler).               *)
(***************************************************************************)
EXTENDS Integers, Sequences, FiniteSets, TLC

(***************************************************************************)
(* Bounds of the model.                                                    *)
(***************************************************************************)
MaxTeams == 3          \* teams returned by one roster query
MaxLongTeams == 2      \* teams of a data set whose names exceed the stem limit
PoolTeams == 6         \* teams of the data set that saturates the worker pool

(***************************************************************************)
(* Characters and strings.                                                 *)
(***************************************************************************)
Digits == <<"0", "1", "2", "3", "4", "5", "6", "7", "8", "9">>
Uppers ==
  <<"A", "B", "C", "D", "E", "F", "G", "H", "I", "J", "K", "L", "M",
    "N", "O", "P", "Q", "R", "S", "T", "U", "V", "W", "X", "Y", "Z">>
Lowers ==
  <<"a", "b", "c", "d", "e", "f", "g", "h", "i", "j", "k", "l", "m",
    "n", "o", "p", "q", "r", "s", "t", "u", "v", "w", "x", "y", "z">>

\* The characters of the model in code point order.
CharOrder ==
  <<"\t", " ", "#", "-", ".">> \o Digits \o Uppers \o <<"_">> \o Lowers \o <<"~">>

Range(s) == {s[i] : i \in 1..Len(s)}

AllChars == Range(CharOrder)

Code(c) == CHOOSE i \in 1..Len(CharOrder) : CharOrder[i] = c

IsDigit(c) == c \in Range(Digits)

DigitVal(c) == (CHOOSE i \in 1..10 : Digits[i] = c) - 1

\* Python's str < str: lexicographic by code point, a proper prefix is smaller.
StrLess(a, b) ==
  LET m  == IF Len(a) < Len(b) THEN Len(a) ELSE Len(b)
      df == {i \in 1..m : a[i] # b[i]}
  IN  IF df = {} THEN Len(a) < Len(b)
      ELSE LET i == CHOOSE k \in df : \A j \in df : k <= j
           IN  Code(a[i]) < Code(b[i])

\* str(n) of a natural number.
RECURSIVE Str(_)
Str(n) == IF n < 10 THEN <<Digits[n + 1]>> ELSE Str(n \div 10) \o <<Digits[(n % 10) + 1]>>

\* int(s) of a digit string.
RECURSIVE Int_(_)
Int_(s) == IF s = <<>> THEN 0 ELSE 10 * Int_(SubSeq(s, 1, Len(s) - 1)) + DigitVal(s[Len(s)])

Repeat(c, n) == [i \in 1..n |-> c]

\* None for string-valued fields (no string of the model equals it).
None == <<"None">>

(***************************************************************************)
(* app/roster/sanitize.py                                                  *)
(***************************************************************************)
\* [A-Za-z0-9._-]
AllowedChars == Range(Uppers) \cup Range(Lowers) \cup Range(Digits) \cup {".", "_", "-"}

StemMax == 116

\* re.sub of a pattern [cls]+ by "_": every maximal run becomes one underscore.
SubRuns(s, cls) ==
  LET Keep(i) == s[i] \notin cls \/ i = 1 \/ s[i - 1] \notin cls
      kept    == SelectSeq([i \in 1..Len(s) |-> i], Keep)
  IN  [j \in 1..Len(kept) |-> IF s[kept[j]] \in cls THEN "_" ELSE s[kept[j]]]

_SANITIZE_sub(s) == SubRuns(s, AllChars \ AllowedChars)

\* A second substitution that leaves repeated underscores as they are.
_MULTI_UNDERS_sub_kept(s) == s

_MULTI_UNDERS_sub(s) == SubRuns(s, {"_"})

\* str.strip(c)
Strip(s, c) ==
  LET others == {i \in 1..Len(s) : s[i] # c}
  IN  IF others = {} THEN <<>>
      ELSE SubSeq(s, CHOOSE i \in others : \A j \in others : i <= j,
                     CHOOSE i \in others : \A j \in others : j <= i)

Replace(s, from, to) == [i \in 1..Len(s) |-> IF s[i] = from THEN to ELSE s[i]]

PdfSuffix == <<".", "p", "d", "f">>

pdf_filename(team_name, team_id) ==
  LET base0 == Replace(team_name \o <<"_">> \o team_id, " ", "_")
      base1 == _SANITIZE_sub(base0)
      base  == Strip(_MULTI_UNDERS_sub(base1), "_")
      name  == IF Len(base) > StemMax THEN SubSeq(base, 1, StemMax) ELSE base
  IN  name \o PdfSuffix

\* pathlib: the suffix starts at the last dot of the name (none when the
\* only dot is the first character); the stem is what precedes it.
LastDot(p) ==
  LET ds == {i \in 2..Len(p) : p[i] = "."}
  IN  IF ds = {} \/ p[Len(p)] = "." THEN Len(p) + 1
      ELSE CHOOSE i \in ds : \A j \in ds : j <= i

PathStem(p) == SubSeq(p, 1, LastDot(p) - 1)

PathSuffix(p) == SubSeq(p, LastDot(p), Len(p))

\* A probe that takes the first numbered name without looking.
ProbeUnique_unchecked(stem, suffix, i, existing) == stem \o <<"-">> \o Str(i) \o suffix

RECURSIVE ProbeUnique(_, _, _, _)
ProbeUnique(stem, suffix, i, existing) ==
  LET cand == stem \o <<"-">> \o Str(i) \o suffix
  IN  IF cand \notin existing THEN cand ELSE ProbeUnique(stem, suffix, i + 1, existing)

\* ensure_unique on a path of the output directory whose existing names
\* are `existing`.
ensure_unique(path, existing) ==
  IF path \notin existing THEN path
  ELSE ProbeUnique(PathStem(path), PathSuffix(path), 1, existing)

(***************************************************************************)
(* app/roster/spec_constants.py, app/roster/sort_and_group.py              *)
(*                                                                         *)
(* A row is a function from column names to values (a dict); a column may  *)
(* be absent.  A dict of teams is the sequence of its entries in insertion *)
(* order, each entry carrying its key `tid`.                               *)
(***************************************************************************)
ROLE_ATHLETE == 1
ROLE_COACH == 2

\* None for integer-valued fields.
NoneInt == 0 - 1

Get(r, k, default) == IF k \in DOMAIN r THEN r[k] ELSE default

JerseyBlank == 1000000000

LeadingDigits(s) ==
  LET nd == {i \in 1..Len(s) : ~IsDigit(s[i])}
  IN  IF nd = {} THEN s
      ELSE SubSeq(s, 1, (CHOOSE i \in nd : \A j \in nd : i <= j) - 1)

_jersey_key(val) ==
  IF val = None THEN <<JerseyBlank, <<>>>>
  ELSE LET s   == Strip(val, " ")
           num == LeadingDigits(s)
       IN  IF num = <<>> THEN <<JerseyBlank, s>> ELSE <<Int_(num), s>>

\* key=lambda r: (_jersey_key(r.get("Jersey_Num")), r.get("Name", ""))
SortKey(r) == <<_jersey_key(Get(r, "Jersey_Num", None)), Get(r, "Name", <<>>)>>

\* Python's tuple comparison of two sort keys.
KeyLess(a, b) ==
  \/ a[1][1] < b[1][1]
  \/ /\ a[1][1] = b[1][1]
     /\ \/ StrLess(a[1][2], b[1][2])
        \/ a[1][2] = b[1][2] /\ StrLess(a[2], b[2])

\* list.sort(key=...): stable, so an element goes after the elements that
\* are not greater than it.
RECURSIVE SortAthletes(_)
SortAthletes(rs) ==
  IF rs = <<>> THEN <<>>
  ELSE LET init == SortAthletes(SubSeq(rs, 1, Len(rs) - 1))
           x    == rs[Len(rs)]
           gt   == {i \in 1..Len(init) : KeyLess(SortKey(x), SortKey(init[i]))}
           pos  == IF gt = {} THEN Len(init) + 1
                   ELSE CHOOSE i \in gt : \A j \in gt : i <= j
       IN  SubSeq(init, 1, pos - 1) \o <<x>> \o SubSeq(init, pos, Len(init))

TeamIndex(teams, tid) ==
  LET is == {i \in 1..Len(teams) : teams[i].tid = tid}
  IN  IF is = {} THEN 0 ELSE CHOOSE i \in is : TRUE

NewTeam(tid) ==
  [tid |-> tid, hasMeta |-> FALSE, meta |-> <<>>, athletes |-> <<>>, coach |-> <<>>]

\* t = teams.setdefault(tid, {...})
SetDefault(teams, tid) ==
  IF TeamIndex(teams, tid) = 0 THEN Append(teams, NewTeam(tid)) ELSE teams

\* if not t["meta"]: t["meta"] = {...}; err when r["Team_Name"] raises KeyError.
WithMeta(t, r) ==
  IF t.hasMeta THEN [err |-> FALSE, t |-> t]
  ELSE IF "Team_Name" \notin DOMAIN r THEN [err |-> TRUE, t |-> t]
  ELSE [err |-> FALSE,
        t |-> [t EXCEPT !.hasMeta = TRUE,
                        !.meta = [Event_Name |-> Get(r, "Event_Name", None),
                                  Team_Name  |-> r["Team_Name"],
                                  Team_ID    |-> r["Team_ID"],
                                  Division   |-> Get(r, "Division", None)]]]

\* A selection that keeps the coach row met last.
WithCoach_latest(t, r) == [err |-> FALSE, t |-> [t EXCEPT !.coach = <<r>>]]

\* if c is None or int(r["User_ID"]) < int(c["User_ID"]): t["coach"] = r
WithCoach(t, r) ==
  IF t.coach = <<>> THEN [err |-> FALSE, t |-> [t EXCEPT !.coach = <<r>>]]
  ELSE IF "User_ID" \notin DOMAIN r \/ "User_ID" \notin DOMAIN t.coach[1]
  THEN [err |-> TRUE, t |-> t]
  ELSE IF r["User_ID"] < t.coach[1]["User_ID"]
  THEN [err |-> FALSE, t |-> [t EXCEPT !.coach = <<r>>]]
  ELSE [err |-> FALSE, t |-> t]

\* A classification that takes every row that is no coach as an athlete.
WithRole_rest_athletes(m, r) ==
  IF m.err THEN m
  ELSE IF Get(r, "Usertype_ID", NoneInt) = ROLE_COACH THEN WithCoach(m.t, r)
  ELSE [err |-> FALSE, t |-> [m.t EXCEPT !.athletes = Append(@, r)]]

\* The classification of the row by its role.
WithRole(m, r) ==
  IF m.err THEN m
  ELSE IF Get(r, "Usertype_ID", NoneInt) = ROLE_ATHLETE
  THEN [err |-> FALSE, t |-> [m.t EXCEPT !.athletes = Append(@, r)]]
  ELSE IF Get(r, "Usertype_ID", NoneInt) = ROLE_COACH THEN WithCoach(m.t, r)
  ELSE m

PutTeam(teams, k, u) ==
  IF u.err THEN [err |-> TRUE, teams |-> teams]
  ELSE [err |-> FALSE, teams |-> [teams EXCEPT ![k] = u.t]]

GroupInto(teams, k, r) == PutTeam(teams, k, WithRole(WithMeta(teams[k], r), r))

GroupAt(teams, tid, r) == GroupInto(teams, TeamIndex(teams, tid), r)

\* One iteration of the loop over rows.  acc = [err, teams]; err is set when
\* the iteration raises KeyError.
GroupRow(acc, r) ==
  IF acc.err THEN acc
  ELSE IF "Team_ID" \notin DOMAIN r THEN [acc EXCEPT !.err = TRUE]
  ELSE GroupAt(SetDefault(acc.teams, Str(r["Team_ID"])), Str(r["Team_ID"]), r)

RECURSIVE GroupRows(_)
GroupRows(rows) ==
  IF rows = <<>> THEN [err |-> FALSE, teams |-> <<>>]
  ELSE GroupRow(GroupRows(SubSeq(rows, 1, Len(rows) - 1)), rows[Len(rows)])

\* group_and_sort(rows): [err |-> TRUE] when it raises, else the dict of teams.
SortTeams(g) ==
  IF g.err THEN [err |-> TRUE, teams |-> <<>>]
  ELSE [err |-> FALSE,
        teams |-> [i \in 1..Len(g.teams) |->
                     [g.teams[i] EXCEPT !.athletes = SortAthletes(@)]]]

group_and_sort(rows) == SortTeams(GroupRows(rows))

(***************************************************************************)
(* Results of the roster query (app/DBFunctions.py, fetch_roster): rows in *)
(* the fixed schema, ordered by team id and user id.                       *)
(***************************************************************************)
\* Team ids of a data set: 9, 10, 11, ...
TeamId(i) == 8 + i

ShortName == <<"U", " ", "1", "4", "#">>
LongName == Repeat("x", StemMax)

EmptyKinds == {"none", "odd", "even", "all"}

DataSets ==
  {d \in [n : 0..MaxTeams, empties : EmptyKinds, long : BOOLEAN] :
     /\ d.long => d.n <= MaxLongTeams
     /\ d.n = 0 => d.empties = "none" /\ ~d.long}

IsEmptyTeam(d, i) ==
  \/ d.empties = "all"
  \/ d.empties = "odd" /\ i % 2 = 1
  \/ d.empties = "even" /\ i % 2 = 0

Row(d, i, uid, role, name, jersey) ==
  [Event_ID |-> 1, Event_Name |-> <<"C", "u", "p">>,
   Team_Name |-> IF d.long THEN LongName ELSE ShortName,
   Team_ID |-> TeamId(i), Division |-> <<"A">>, User_ID |-> 10 * i + uid,
   Name |-> name, Usertype_ID |-> role, Jersey_Num |-> jersey]

TeamRows(d, i) ==
  IF IsEmptyTeam(d, i)
  THEN <<Row(d, i, 2, ROLE_COACH, <<"K">>, None)>>
  ELSE <<Row(d, i, 1, ROLE_ATHLETE, <<"Z", "e", "d">>, <<"1", "2">>),
         Row(d, i, 2, ROLE_COACH, <<"K">>, None)>>
       \o (IF i = 1 THEN <<Row(d, i, 3, ROLE_ATHLETE, <<"C", "a", "t">>, <<"3">>)>>
           ELSE <<>>)

RECURSIVE FetchRows(_, _)
FetchRows(d, i) == IF i = 0 THEN <<>> ELSE FetchRows(d, i - 1) \o TeamRows(d, i)

fetch_roster(d) == FetchRows(d, d.n)

(***************************************************************************)
(* app/roster/export_engine.py, engine_ironpdf.py, engine_web.py           *)
(*                                                                         *)
(* An environment says what the process finds when it probes the engines:  *)
(* ironpdf  - the ironpdf module (with its native dependencies) imports    *)
(* license  - get_license() yields a key                                   *)
(* chrome   - ChromePdfRenderer() constructs                               *)
(* options  - the rendering options are accepted (failure is swallowed)    *)
(* warmup   - the warm-up render succeeds (failure is swallowed)           *)
(* web      - WebEnginePdf imports and constructs                          *)
(***************************************************************************)
Envs ==
  [ironpdf : BOOLEAN, license : BOOLEAN, chrome : BOOLEAN,
   options : BOOLEAN, warmup : BOOLEAN, web : BOOLEAN]

NoEngine == [kind |-> "None", licensed |-> FALSE, configured |-> FALSE, warmed |-> FALSE]

\* IronPdfEngine.__init__: raises when the import of ChromePdfRenderer or its
\* construction fails; failures of the option and warm-up blocks are swallowed.
IronPdfEngine_init(e) ==
  IF ~e.ironpdf \/ ~e.chrome THEN [raised |-> TRUE, eng |-> NoEngine]
  ELSE [raised |-> FALSE,
        eng |-> [kind |-> "IronPdfEngine", licensed |-> e.license,
                 configured |-> e.options, warmed |-> e.warmup]]

_try_ironpdf(e) ==
  IF ~e.ironpdf THEN NoEngine
  ELSE IF IronPdfEngine_init(e).raised THEN NoEngine
  ELSE IronPdfEngine_init(e).eng

_try_webengine(e) ==
  IF e.web
  THEN [kind |-> "WebEnginePdf", licensed |-> FALSE, configured |-> FALSE, warmed |-> FALSE]
  ELSE NoEngine

\* A selection that tries the fallback engine before the preferred one.
get_export_engine_web_first(e) ==
  LET eng1 == _try_webengine(e)
      eng2 == IF eng1 = NoEngine THEN _try_ironpdf(e) ELSE eng1
  IN  IF eng2 = NoEngine THEN [raised |-> TRUE, eng |-> NoEngine]
      ELSE [raised |-> FALSE, eng |-> eng2]

\* get_export_engine(): raised stands for the RuntimeError.
get_export_engine(e) ==
  LET eng1 == _try_ironpdf(e)
      eng2 == IF eng1 = NoEngine THEN _try_webengine(e) ELSE eng1
  IN  IF eng2 = NoEngine THEN [raised |-> TRUE, eng |-> NoEngine]
      ELSE [raised |-> FALSE, eng |-> eng2]

\* What a render_pdf call can do: write the file and return True, return
\* False, or raise.  WebEnginePdf.render_pdf catches every exception.
RenderOutcomes(kind) ==
  IF kind = "WebEnginePdf" THEN {"ok", "false"} ELSE {"ok", "false", "raise"}

(***************************************************************************)
(* app/ui/main_window.py: the state of a MainWindow and of the handler it  *)
(* is running.                                                             *)
(***************************************************************************)
VARIABLES
  rows,              \* self._rows
  partner_logo_url,  \* self._partner_logo_url
  pdf_engine,        \* self._pdf_engine: <<>> while the attribute is unset
  preview,           \* the document shown by self.preview: <<>> or <<html>>
  total,             \* self._export_total
  progress,          \* value of self.export_progress
  files,             \* names existing in the output directory of the run
  pc,                \* position of the UI thread
  outcome,           \* what the last handler reported to the user
  export_queue,      \* on_export: export_queue
  can_parallel,      \* on_export: can_parallel
  ironInitOk,        \* whether IronPdfEngine() constructs during this run
  webInitOk,         \* whether WebEnginePdf() constructs during this run
  idx,               \* on_export: idx of the serial loop
  ok_count,          \* on_export: ok_count
  done_so_far,       \* on_export: done_so_far
  jobs,              \* the render jobs of the run, in submission order
  nextInst,          \* identity of the next renderer object constructed
  rendered,          \* teams the handler has passed to render_team
  probed,            \* calls of ensure_unique made by the handler
  engineProbes,      \* calls of get_export_engine made by the handler
  reports,           \* done counts passed to _export_progress_update
  progressStarts,    \* calls of _export_progress_start made by the handler
  probeEnv,          \* engine selection on its own: the environment
  probeResult,       \* engine selection on its own: what get_export_engine did
  fnArgs,            \* a function called on its own: its arguments
  fnResult           \* a function called on its own: <<>> or <<what it returned>>

winVars == <<rows, partner_logo_url, pdf_engine, preview, total, progress, files>>
runVars ==
  <<export_queue, can_parallel, ironInitOk, webInitOk, idx, ok_count, done_so_far, jobs,
    nextInst, rendered, probed, engineProbes, reports, progressStarts>>
probeVars == <<probeEnv, probeResult, fnArgs, fnResult>>
vars == <<winVars, pc, outcome, runVars, probeVars>>

max_workers == 5

NoUrl == <<"None">>
LogoUrls == {<<"h", "t", "t", "p", "s", ":", "/", "/", "c", "/", "1">>}

ShortFile == pdf_filename(ShortName, Str(TeamId(1)))
LongFile == pdf_filename(LongName, Str(TeamId(1)))

\* Contents of the output directory the user may choose.
DirContents == {{}, {ShortFile, LongFile}}

NoOutcome == [h |-> "none", kind |-> "none", count |-> 0]

Outcome(h, kind, count) == [h |-> h, kind |-> kind, count |-> count]

\* _render_html(team): the document of a team, identified by what it shows.
_render_html(team, logo) ==
  [tid |-> team.tid, athletes |-> Len(team.athletes), logo |-> logo]

TeamTag(team) == [tid |-> team.tid, athletes |-> Len(team.athletes)]

\* The locals of a handler that is not running.
FreshLocals ==
  /\ export_queue' = <<>>
  /\ can_parallel' = FALSE
  /\ ironInitOk' = FALSE
  /\ webInitOk' = FALSE
  /\ idx' = 0
  /\ ok_count' = 0
  /\ done_so_far' = 0
  /\ jobs' = <<>>
  /\ nextInst' = 1
  /\ rendered' = {}
  /\ probed' = 0
  /\ engineProbes' = 0
  /\ reports' = <<>>
  /\ progressStarts' = 0

\* A window that holds rows rs, the logo URL logo and shows the preview
\* shown, and has exported nothing yet.
Window(rs, logo, shown) ==
  /\ rows = rs
  /\ partner_logo_url = logo
  /\ pdf_engine = <<>>
  /\ preview = shown
  /\ total = 0
  /\ progress = 0
  /\ files = {}
  /\ pc = "idle"
  /\ outcome = NoOutcome
  /\ export_queue = <<>>
  /\ can_parallel = FALSE
  /\ ironInitOk = FALSE
  /\ webInitOk = FALSE
  /\ idx = 0
  /\ ok_count = 0
  /\ done_so_far = 0
  /\ jobs = <<>>
  /\ nextInst = 1
  /\ rendered = {}
  /\ probed = 0
  /\ engineProbes = 0
  /\ reports = <<>>
  /\ progressStarts = 0

\* MainWindow.__init__
WindowInit == Window(<<>>, NoUrl, <<>>)

NotProbed == [called |-> FALSE, raised |-> FALSE, eng |-> NoEngine]

\* No function is being called on its own.
NoCall == fnArgs = <<>> /\ fnResult = <<>>

Init ==
  /\ WindowInit
  /\ probeEnv = [ironpdf |-> FALSE, license |-> FALSE, chrome |-> FALSE,
                 options |-> FALSE, warmup |-> FALSE, web |-> FALSE]
  /\ probeResult = NotProbed
  /\ NoCall

(***************************************************************************)
(* on_preview                                                              *)
(***************************************************************************)
\* sorted(teams.keys())[0]: the entry with the smallest key as a string.
FirstTeam(teams) ==
  CHOOSE i \in 1..Len(teams) :
    \A j \in 1..Len(teams) : j # i => StrLess(teams[i].tid, teams[j].tid)

NoPreview(kind) == [kind |-> kind, shown |-> <<>>, rendered |-> {}]

PreviewTeam(first_team, logo) ==
  IF first_team.athletes = <<>> THEN NoPreview("empty_roster")
  ELSE [kind |-> "shown", shown |-> <<_render_html(first_team, logo)>>,
        rendered |-> {TeamTag(first_team)}]

PreviewTeams(g, logo) ==
  IF g.err THEN NoPreview("raised")
  ELSE IF g.teams = <<>> THEN NoPreview("no_teams")
  ELSE PreviewTeam(g.teams[FirstTeam(g.teams)], logo)

\* What on_preview does with rows rs and logo URL logo: the message shown,
\* the document set on the preview and the teams passed to render_team.
on_preview(rs, logo) ==
  IF rs = <<>> THEN NoPreview("no_data") ELSE PreviewTeams(group_and_sort(rs), logo)

ShowPreview(r, h, kind) ==
  /\ rendered' = r.rendered
  /\ preview' = IF r.shown # <<>> THEN r.shown ELSE preview
  /\ outcome' = Outcome(h, kind, 0)

OnPreview ==
  /\ pc = "idle"
  /\ \E r \in {on_preview(rows, partner_logo_url)} : ShowPreview(r, "preview", r.kind)
  /\ pc' = "returned"
  /\ UNCHANGED <<rows, partner_logo_url, pdf_engine, total, progress, files,
                 export_queue, can_parallel, ironInitOk, webInitOk, idx, ok_count, done_so_far,
                 jobs, nextInst, probed, engineProbes, reports, progressStarts,
                 probeVars>>

(***************************************************************************)
(* on_load_db                                                              *)
(***************************************************************************)
OnLoadDb ==
  /\ pc = "idle"
  /\ \E how \in {"cancel", "db_error", "rows"} :
       IF how = "cancel"
       THEN /\ outcome' = Outcome("load", "cancelled", 0)
            /\ UNCHANGED <<rows, partner_logo_url, preview, rendered>>
       ELSE IF how = "db_error"
       THEN /\ outcome' = Outcome("load", "db_error", 0)
            /\ UNCHANGED <<rows, partner_logo_url, preview, rendered>>
       ELSE \E res \in DataSets, logo \in LogoUrls \cup {NoUrl} :
              \E rs \in {fetch_roster(res)} :
                /\ partner_logo_url' = logo
                /\ IF rs = <<>>
                   THEN /\ outcome' = Outcome("load", "no_rows", 0)
                        /\ UNCHANGED <<rows, preview, rendered>>
                   ELSE /\ rows' = rs
                        /\ ShowPreview(on_preview(rs, logo), "load", "loaded")
  /\ pc' = "returned"
  /\ UNCHANGED <<pdf_engine, total, progress, files,
                 export_queue, can_parallel, ironInitOk, webInitOk, idx, ok_count, done_so_far,
                 jobs, nextInst, probed, engineProbes, reports, progressStarts,
                 probeVars>>

(***************************************************************************)
(* on_export                                                               *)
(***************************************************************************)
Max(a, b) == IF a > b THEN a ELSE b

\* A queue that keeps the teams without athletes.
ExportQueue_unfiltered(teams) == teams

\* [t for t in teams.values() if t.get("athletes")]
ExportQueue(teams) == SelectSeq(teams, LAMBDA t : t.athletes # <<>>)

\* A run that never takes the early return for an empty queue.
NothingToExport_never(queue) == FALSE

\* if not export_queue
NothingToExport(queue) == queue = <<>>

\* ensure_unique(out_base / pdf_filename(str(team_name), str(team_id)))
OutPath(team, existing) ==
  ensure_unique(pdf_filename(team.meta.Team_Name, Str(team.meta.Team_ID)), existing)

PendingJob(team, path) ==
  [st |-> "pending", ok |-> FALSE, inst |-> 0, kind |-> "None", thread |-> "none",
   path |-> path, tid |-> team.tid]

\* The environments an export run is started in: whether ironpdf imports,
\* whether ChromePdfRenderer() constructs and whether WebEnginePdf does.
ExportEnvs == {e \in Envs : e.license /\ e.options /\ e.warmup}

\* on_export returns before it has collected anything.
ExportStop(kind) ==
  /\ outcome' = Outcome("export", kind, 0)
  /\ pc' = "returned"
  /\ UNCHANGED <<total, progress, files, export_queue, can_parallel, ironInitOk, webInitOk,
                 progressStarts>>

\* Lines 415-447: the guards, the collection of the exportable teams, the
\* start of the progress display and the choice of the execution path.
OnExport ==
  /\ pc = "idle"
  /\ \E chosen \in BOOLEAN, dir \in DirContents, e \in ExportEnvs :
       IF rows = <<>> THEN ExportStop("no_data")
       ELSE IF ~chosen THEN ExportStop("cancelled")
       ELSE \E g \in {group_and_sort(rows)} :
              IF g.err THEN ExportStop("raised")
              ELSE \E queue \in {ExportQueue(g.teams)} :
                     /\ export_queue' = queue
                     /\ files' = dir
                     /\ IF NothingToExport(queue)
                        THEN /\ outcome' = Outcome("export", "nothing_to_export", 0)
                             /\ pc' = "returned"
                             /\ UNCHANGED <<total, progress, can_parallel, ironInitOk, webInitOk,
                                            progressStarts>>
                        ELSE /\ total' = Len(queue)
                             /\ progress' = 0
                             /\ progressStarts' = progressStarts + 1
                             /\ can_parallel' = e.ironpdf
                             /\ ironInitOk' = ~IronPdfEngine_init(e).raised
                             /\ webInitOk' = (_try_webengine(e) # NoEngine)
                             /\ outcome' = Outcome("export", "running", 0)
                             /\ pc' = IF e.ironpdf THEN "prepare" ELSE "get_engine"
  /\ UNCHANGED <<rows, partner_logo_url, pdf_engine, preview, idx, ok_count,
                 done_so_far, jobs, nextInst, rendered, probed, engineProbes, reports,
                 probeVars>>

\* A window that never finds its engine cached.
EngineCached_never(eng) == FALSE

\* hasattr(self, "_pdf_engine")
EngineCached(eng) == eng # <<>>

\* Lines 509-529: _get_engine() of the serial path.  The import of ironpdf
\* has just failed in on_export, so the environment probed has no ironpdf.
SerialGetEngine ==
  /\ pc = "get_engine"
  /\ IF EngineCached(pdf_engine)
     THEN /\ pc' = IF export_queue = <<>> THEN "finish" ELSE "serial"
          /\ idx' = 1
          /\ UNCHANGED <<pdf_engine, outcome, engineProbes>>
     ELSE \E e \in Envs :
            /\ e.ironpdf = can_parallel
            /\ e.web = webInitOk
            /\ e.license /\ e.options /\ e.warmup /\ e.chrome
            /\ engineProbes' = engineProbes + 1
            /\ LET r == get_export_engine(e)
               IN  IF r.raised
                   THEN /\ outcome' = Outcome("export", "raised", 0)
                        /\ pc' = "returned"
                        /\ UNCHANGED <<pdf_engine, idx>>
                   ELSE /\ pdf_engine' = <<r.eng>>
                        /\ pc' = IF export_queue = <<>> THEN "finish" ELSE "serial"
                        /\ idx' = 1
                        /\ UNCHANGED outcome
  /\ UNCHANGED <<rows, partner_logo_url, preview, total, progress, files,
                 export_queue, can_parallel, ironInitOk, webInitOk, ok_count, done_so_far,
                 jobs, nextInst, rendered, probed, reports, progressStarts, probeVars>>

\* Lines 452-462: the serial loop renders the team's document, picks its
\* output path and calls render_pdf of the cached engine on the UI thread.
SerialBeginJob ==
  /\ pc = "serial"
  /\ idx <= Len(export_queue)
  /\ LET team == export_queue[idx]
     IN  /\ rendered' = rendered \cup {TeamTag(team)}
         /\ probed' = probed + 1
         /\ jobs' = Append(jobs,
                      [st |-> "running", ok |-> FALSE, inst |-> 0,
                       kind |-> pdf_engine[1].kind, thread |-> "ui",
                       path |-> OutPath(team, files), tid |-> team.tid])
  /\ pc' = "serial_render"
  /\ UNCHANGED <<winVars, outcome, export_queue, can_parallel, ironInitOk, webInitOk, idx,
                 ok_count, done_so_far, nextInst, engineProbes, reports,
                 progressStarts, probeVars>>

\* Lines 462-466: render_pdf returns or raises; the result is counted and
\* progress is reported.
SerialEndJob ==
  /\ pc = "serial_render"
  /\ \E res \in RenderOutcomes(jobs[idx].kind) :
       /\ jobs' = [jobs EXCEPT ![idx].st = "consumed", ![idx].ok = (res = "ok")]
       /\ files' = IF res = "ok" THEN files \cup {jobs[idx].path} ELSE files
       /\ ok_count' = ok_count + (IF res = "ok" THEN 1 ELSE 0)
  /\ progress' = idx
  /\ reports' = Append(reports, idx)
  /\ idx' = idx + 1
  /\ pc' = IF idx = Len(export_queue) THEN "finish" ELSE "serial"
  /\ UNCHANGED <<rows, partner_logo_url, pdf_engine, preview, total, outcome,
                 export_queue, can_parallel, ironInitOk, webInitOk, done_so_far, nextInst,
                 rendered, probed, engineProbes, progressStarts, probeVars>>

\* Lines 480-496: every payload (document and output path) is prepared on
\* the UI thread against the directory as it is, then all are submitted.
PoolPrepare ==
  /\ pc = "prepare"
  /\ jobs' = [j \in 1..Len(export_queue) |->
                PendingJob(export_queue[j], OutPath(export_queue[j], files))]
  /\ rendered' = rendered \cup {TeamTag(export_queue[j]) : j \in 1..Len(export_queue)}
  /\ probed' = probed + Len(export_queue)
  /\ done_so_far' = 0
  /\ pc' = IF export_queue = <<>> THEN "finish" ELSE "pool"
  /\ UNCHANGED <<winVars, outcome, export_queue, can_parallel, ironInitOk, webInitOk, idx,
                 ok_count, nextInst, engineProbes, reports, progressStarts, probeVars>>

Running(js) == {j \in 1..Len(js) : js[j].st = "running"}

\* A pool that starts every submitted work item at once.
WorkerAvailable_unbounded(js) == TRUE

\* ThreadPoolExecutor(max_workers=5): a work item starts only on an idle worker.
WorkerAvailable(js) == Cardinality(Running(js)) < max_workers

\* A job that renders with the engine cached on the window when there is one.
JobRenderer_cached(n) ==
  IF pdf_engine # <<>> THEN [kind |-> pdf_engine[1].kind, inst |-> n]
  ELSE [kind |-> "IronPdfEngine", inst |-> n]

\* eng = IronPdfEngine() in _job: a renderer object of its own.
JobRenderer(n) == [kind |-> "IronPdfEngine", inst |-> n]

\* Lines 472-474: a worker takes the next work item and constructs its
\* renderer; the exception of a failed construction becomes the future's.
JobStart(j) ==
  /\ pc \in {"pool", "shutdown"}
  /\ j \in 1..Len(jobs)
  /\ jobs[j].st = "pending"
  /\ \A i \in 1..(j - 1) : jobs[i].st # "pending"
  /\ WorkerAvailable(jobs)
  /\ IF ironInitOk
     THEN /\ jobs' = [jobs EXCEPT ![j].st = "running",
                                  ![j].inst = JobRenderer(nextInst).inst,
                                  ![j].kind = JobRenderer(nextInst).kind,
                                  ![j].thread = "pdf"]
          /\ nextInst' = nextInst + 1
     ELSE /\ jobs' = [jobs EXCEPT ![j].st = "raised", ![j].thread = "pdf"]
          /\ UNCHANGED nextInst
  /\ UNCHANGED <<winVars, pc, outcome, export_queue, can_parallel, ironInitOk, webInitOk, idx,
                 ok_count, done_so_far, rendered, probed, engineProbes, reports,
                 progressStarts, probeVars>>

\* Lines 475-478: render_pdf returns, or raises and the job returns False.
JobEnd(j) ==
  /\ pc \in {"pool", "shutdown"}
  /\ j \in 1..Len(jobs)
  /\ jobs[j].st = "running"
  /\ \E res \in RenderOutcomes(jobs[j].kind) :
       /\ jobs' = [jobs EXCEPT ![j].st = "done", ![j].ok = (res = "ok")]
       /\ files' = IF res = "ok" THEN files \cup {jobs[j].path} ELSE files
  /\ UNCHANGED <<rows, partner_logo_url, pdf_engine, preview, total, progress, pc,
                 outcome, export_queue, can_parallel, ironInitOk, webInitOk, idx, ok_count,
                 done_so_far, nextInst, rendered, probed, engineProbes, reports,
                 progressStarts, probeVars>>

\* Lines 497-500: as_completed yields a finished future; fut.result() returns
\* the job's value or re-raises the job's exception, which leaves the loop.
AsCompleted(j) ==
  /\ pc = "pool"
  /\ j \in 1..Len(jobs)
  /\ jobs[j].st \in {"done", "raised"}
  /\ IF jobs[j].st = "raised"
     THEN /\ pc' = "shutdown"
          /\ UNCHANGED <<jobs, ok_count, done_so_far, progress, reports>>
     ELSE /\ jobs' = [jobs EXCEPT ![j].st = "consumed"]
          /\ ok_count' = ok_count + (IF jobs[j].ok THEN 1 ELSE 0)
          /\ done_so_far' = done_so_far + 1
          /\ progress' = done_so_far + 1
          /\ reports' = Append(reports, done_so_far + 1)
          /\ pc' = IF \A i \in 1..Len(jobs) : i # j => jobs[i].st = "consumed"
                   THEN "finish" ELSE "pool"
  /\ UNCHANGED <<rows, partner_logo_url, pdf_engine, preview, total, files, outcome,
                 export_queue, can_parallel, ironInitOk, webInitOk, idx, nextInst, rendered,
                 probed, engineProbes, progressStarts, probeVars>>

\* The exception leaves the with block: the executor's shutdown waits for
\* every submitted job, then on_export raises.
PoolRaise ==
  /\ pc = "shutdown"
  /\ \A j \in 1..Len(jobs) : jobs[j].st \in {"done", "raised", "consumed"}
  /\ outcome' = Outcome("export", "raised", 0)
  /\ pc' = "returned"
  /\ UNCHANGED <<winVars, runVars, probeVars>>

\* Lines 503-505: _export_progress_finish and the Done message.
ExportFinish ==
  /\ pc = "finish"
  /\ progress' = Max(1, total)
  /\ outcome' = Outcome("export", "done", ok_count)
  /\ pc' = "returned"
  /\ UNCHANGED <<rows, partner_logo_url, pdf_engine, preview, total, files,
                 runVars, probeVars>>

\* The handler has returned (or raised) to the event loop: its locals are
\* gone and the window waits for the next event.
HandlerReturn ==
  /\ pc = "returned"
  /\ pc' = "idle"
  /\ outcome' = NoOutcome
  /\ files' = {}
  /\ FreshLocals
  /\ UNCHANGED <<rows, partner_logo_url, pdf_engine, preview, total, progress,
                 probeVars>>

Next ==
  \/ OnLoadDb
  \/ OnPreview
  \/ OnExport
  \/ SerialGetEngine
  \/ SerialBeginJob
  \/ SerialEndJob
  \/ PoolPrepare
  \/ \E j \in 1..PoolTeams : JobStart(j)
  \/ \E j \in 1..PoolTeams : JobEnd(j)
  \/ \E j \in 1..PoolTeams : AsCompleted(j)
  \/ PoolRaise
  \/ ExportFinish
  \/ HandlerReturn

Spec == Init /\ [][Next]_vars

(***************************************************************************)
(* The export of a data set large enough to keep every worker of the pool  *)
(* busy: the window after that data set was loaded.                        *)
(***************************************************************************)
PoolDataSet == [n |-> PoolTeams, empties |-> "none", long |-> FALSE]

InitPool ==
  /\ Window(fetch_roster(PoolDataSet), NoUrl,
            on_preview(fetch_roster(PoolDataSet), NoUrl).shown)
  /\ probeEnv = [ironpdf |-> FALSE, license |-> FALSE, chrome |-> FALSE,
                 options |-> FALSE, warmup |-> FALSE, web |-> FALSE]
  /\ probeResult = NotProbed
  /\ NoCall

NextPool ==
  \/ OnExport
  \/ SerialGetEngine
  \/ SerialBeginJob
  \/ SerialEndJob
  \/ PoolPrepare
  \/ \E j \in 1..PoolTeams : JobStart(j)
  \/ \E j \in 1..PoolTeams : JobEnd(j)
  \/ \E j \in 1..PoolTeams : AsCompleted(j)
  \/ PoolRaise
  \/ ExportFinish
  \/ HandlerReturn

SpecPool == InitPool /\ [][NextPool]_vars

(***************************************************************************)
(* Engine selection on its own: get_export_engine in every environment.    *)
(***************************************************************************)
InitEngine ==
  /\ WindowInit
  /\ probeEnv \in Envs
  /\ probeResult = NotProbed
  /\ NoCall

ProbeEngine ==
  /\ ~probeResult.called
  /\ probeResult' = [called |-> TRUE, raised |-> get_export_engine(probeEnv).raised,
                     eng |-> get_export_engine(probeEnv).eng]
  /\ UNCHANGED <<winVars, pc, outcome, runVars, probeEnv, fnArgs, fnResult>>

NextEngine == ProbeEngine

SpecEngine == InitEngine /\ [][NextEngine]_vars

(***************************************************************************)
(* Properties of the export run, the engine selection and the preview.     *)
(***************************************************************************)
\* The export handler has returned or raised, and had created render jobs.
ExportEnded == pc = "returned" /\ outcome.h = "export" /\ jobs # <<>>

Finished(js) == {j \in 1..Len(js) : js[j].st \in {"done", "raised", "consumed"}}

Succeeded(js) == {j \in 1..Len(js) : js[j].ok}

\* The rows hold a team without athletes / only such teams / such a team as
\* the one the preview picks.
HasEmptyTeam(rs) ==
  rs # <<>> /\ \E g \in {group_and_sort(rs)} :
                 \E i \in 1..Len(g.teams) : g.teams[i].athletes = <<>>

AllTeamsEmpty(rs) ==
  rs # <<>> /\ \E g \in {group_and_sort(rs)} :
                 \A i \in 1..Len(g.teams) : g.teams[i].athletes = <<>>

FirstTeamEmpty(rs) ==
  rs # <<>> /\ \E g \in {group_and_sort(rs)} :
                 g.teams # <<>> /\ g.teams[FirstTeam(g.teams)].athletes = <<>>

\* C1: a job that fails, by returning failure, by raising or by failing to
\* construct its renderer, never aborts the run: when on_export ends, it has
\* not raised, every exportable team was attempted and the reported count
\* is the number of jobs whose render returned success.
C1_JobFailureNeverAborts ==
  ExportEnded =>
    /\ outcome.kind = "done"
    /\ Len(jobs) = Len(export_queue)
    /\ \A j \in 1..Len(jobs) : jobs[j].st # "pending"
    /\ outcome.count = Cardinality(Succeeded(jobs))

\* C2: the output paths given to the jobs of one run are pairwise distinct.
C2_OutputPathsDistinct ==
  \A i, j \in 1..Len(jobs) : i # j => jobs[i].path # jobs[j].path

\* C3: jobs go to the worker pool only when the preferred engine is
\* available and can be initialized; otherwise the run renders with the
\* fallback engine, every job on the calling thread.
C3_PoolOnlyWhenPreferredInitializes ==
  /\ (pc \in {"prepare", "pool", "shutdown"} \/ \E j \in 1..Len(jobs) : jobs[j].thread = "pdf")
       => (can_parallel /\ ironInitOk)
  /\ pc \in {"serial", "serial_render"}
       => /\ pdf_engine # <<>> /\ pdf_engine[1].kind = "WebEnginePdf"
          /\ \A j \in 1..Len(jobs) : jobs[j].thread = "ui"

C7_ProgressPerCompletedJob ==
  /\ \A i \in 1..Len(reports) : reports[i] = i
  /\ Len(reports) <= total
  /\ Len(reports) <= Cardinality(Finished(jobs))
  /\ ExportEnded => (Len(reports) = total /\ Len(reports) = Cardinality(Finished(jobs)))

\* C8: a run that has begun executing ends with Done, and Done is reported
\* only when every submitted job has completed.
C8_ExecutingRunReachesDone ==
  /\ ExportEnded => outcome.kind = "done"
  /\ (outcome.h = "export" /\ outcome.kind = "done")
       => /\ Len(jobs) = Len(export_queue)
          /\ \A j \in 1..Len(jobs) : jobs[j].st = "consumed"

C10_NothingToExportBeforeAnyWork ==
  (outcome.h = "export"
     /\ (outcome.kind = "nothing_to_export"
           \/ (outcome.kind \notin {"no_data", "cancelled"} /\ AllTeamsEmpty(rows))))
    => /\ outcome.kind = "nothing_to_export"
       /\ pc = "returned"
       /\ engineProbes = 0 /\ nextInst = 1
       /\ rendered = {}
       /\ probed = 0
       /\ reports = <<>> /\ progressStarts = 0
       /\ jobs = <<>>
       /\ files \in DirContents

\* An export over teams that are all empty has returned.
C10_Witness_AllEmpty ==
  /\ pc = "returned"
  /\ outcome.h = "export" /\ outcome.kind = "nothing_to_export"
  /\ AllTeamsEmpty(rows)

MaxRows == 3

RoleOther == 3

GRow(tid, uid, role) ==
  [Event_ID |-> 1, Event_Name |-> <<"C", "u", "p">>, Team_Name |-> ShortName,
   Team_ID |-> tid, Division |-> <<"A">>, User_ID |-> uid,
   Name |-> <<"P", Str(uid)[1]>>, Usertype_ID |-> role, Jersey_Num |-> Str(uid)]

\* The row without column k.
Without(r, k) == [c \in DOMAIN r \ {k} |-> r[c]]

RequiredColumns == {"Team_ID", "Team_Name", "Usertype_ID", "User_ID"}

FullRows ==
  {GRow(9, 1, ROLE_ATHLETE), GRow(9, 5, ROLE_COACH), GRow(9, 2, ROLE_COACH),
   GRow(9, 6, RoleOther), GRow(10, 3, ROLE_ATHLETE), GRow(10, 4, ROLE_COACH)}

PartialRows ==
  {Without(GRow(9, 1, ROLE_ATHLETE), k) : k \in RequiredColumns}
    \cup {Without(GRow(9, 5, ROLE_COACH), "User_ID"),
          Without(GRow(9, 2, ROLE_COACH), "Team_Name")}

GroupInputs == UNION {[1..n -> FullRows \cup PartialRows] : n \in 0..MaxRows}

InitGroup ==
  /\ WindowInit
  /\ probeEnv = [ironpdf |-> FALSE, license |-> FALSE, chrome |-> FALSE,
                 options |-> FALSE, warmup |-> FALSE, web |-> FALSE]
  /\ probeResult = NotProbed
  /\ fnArgs \in GroupInputs
  /\ fnResult = <<>>

CallGroupAndSort ==
  /\ fnResult = <<>>
  /\ fnResult' = <<group_and_sort(fnArgs)>>
  /\ UNCHANGED <<winVars, pc, outcome, runVars, probeEnv, probeResult, fnArgs>>

NextGroup == CallGroupAndSort

SpecGroup == InitGroup /\ [][NextGroup]_vars

WellFormed(rs) == \A k \in 1..Len(rs) : RequiredColumns \subseteq DOMAIN rs[k]

RoleOf(r) == Get(r, "Usertype_ID", NoneInt)

Occurrences(seq, r) == Cardinality({j \in 1..Len(seq) : seq[j] = r})

\* The teams of a result that hold row r among their athletes / as coach.
TeamsWithAthlete(teams, r) ==
  {i \in 1..Len(teams) : Occurrences(teams[i].athletes, r) > 0}

TeamsWithCoach(teams, r) == {i \in 1..Len(teams) : teams[i].coach = <<r>>}

TeamKeys(rs) == {Str(rs[k].Team_ID) : k \in 1..Len(rs)}

\* One team per Team_ID of the input, no two teams with the same key.
OneTeamPerId(rs, teams) ==
  /\ {teams[i].tid : i \in 1..Len(teams)} = TeamKeys(rs)
  /\ Len(teams) = Cardinality(TeamKeys(rs))

\* An athlete row is among the athletes of its own team, as often as it is
\* in the input, and nowhere else; a row of another role is in no athlete
\* list; a row that is no coach is no team's coach.
AthletesPlaced(rs, teams) ==
  \A k \in 1..Len(rs) :
    /\ \A i \in 1..Len(teams) :
         Occurrences(teams[i].athletes, rs[k]) =
           (IF RoleOf(rs[k]) = ROLE_ATHLETE /\ teams[i].tid = Str(rs[k].Team_ID)
            THEN Occurrences(rs, rs[k]) ELSE 0)
    /\ RoleOf(rs[k]) # ROLE_COACH => TeamsWithCoach(teams, rs[k]) = {}

\* Every athlete and every coach of the result is a row of the input.
NothingInvented(rs, teams) ==
  \A i \in 1..Len(teams) :
    /\ \A j \in 1..Len(teams[i].athletes) : Occurrences(rs, teams[i].athletes[j]) > 0
    /\ teams[i].coach # <<>> => Occurrences(rs, teams[i].coach[1]) > 0

\* C12: group_and_sort returns one team per Team_ID of the input, and every
\* row is in exactly one collection, that of its role in its own team, or in
\* none when its role is neither athlete nor coach.
C12_EveryRowInOneCollection ==
  (fnResult # <<>> /\ WellFormed(fnArgs)) =>
    /\ OneTeamPerId(fnArgs, fnResult[1].teams)
    /\ AthletesPlaced(fnArgs, fnResult[1].teams)
    /\ NothingInvented(fnArgs, fnResult[1].teams)
    /\ \A k \in 1..Len(fnArgs) :
         RoleOf(fnArgs[k]) = ROLE_COACH =>
           \E i \in 1..Len(fnResult[1].teams) :
             /\ fnResult[1].teams[i].tid = Str(fnArgs[k].Team_ID)
             /\ TeamsWithCoach(fnResult[1].teams, fnArgs[k]) = {i}

\* C12 (as the code has it): one team per Team_ID; every athlete row is in
\* the athlete list of its own team and nowhere else; a team with coach rows
\* keeps exactly one of them as its coach and the other coach rows are in no
\* collection; rows of another role are in no collection.
C12_RowsPlacedOneCoachKept ==
  (fnResult # <<>> /\ ~fnResult[1].err) =>
    /\ OneTeamPerId(fnArgs, fnResult[1].teams)
    /\ AthletesPlaced(fnArgs, fnResult[1].teams)
    /\ NothingInvented(fnArgs, fnResult[1].teams)
    /\ \A i \in 1..Len(fnResult[1].teams) :
         IF \E k \in 1..Len(fnArgs) :
              RoleOf(fnArgs[k]) = ROLE_COACH
                /\ Str(fnArgs[k].Team_ID) = fnResult[1].teams[i].tid
         THEN /\ fnResult[1].teams[i].coach # <<>>
              /\ RoleOf(fnResult[1].teams[i].coach[1]) = ROLE_COACH
              /\ Str(fnResult[1].teams[i].coach[1].Team_ID) = fnResult[1].teams[i].tid
         ELSE fnResult[1].teams[i].coach = <<>>

\* Two teams, an athlete of each, a coach and a row of an unknown role.
C12_Witness_TwoTeams ==
  /\ fnResult # <<>> /\ ~fnResult[1].err
  /\ Len(fnResult[1].teams) = 2
  /\ Len(fnArgs) = 3
  /\ \E k \in 1..Len(fnArgs) : RoleOf(fnArgs[k]) = RoleOther
  /\ \E i \in 1..2 : fnResult[1].teams[i].athletes # <<>>

CoachRows(rs, tid) ==
  {k \in 1..Len(rs) : RoleOf(rs[k]) = ROLE_COACH /\ Str(rs[k].Team_ID) = tid}

Permuted(rs, p) == [i \in 1..Len(rs) |-> rs[p[i]]]

Coaches(g) == {<<g.teams[i].tid, g.teams[i].coach>> : i \in 1..Len(g.teams)}

\* C13: the coach of a team is the coach row with the smallest User_ID,
\* whatever the order of the rows; a team without coach rows has no coach.
C13_CoachIsMinUserId ==
  (fnResult # <<>> /\ WellFormed(fnArgs)) =>
    /\ ~fnResult[1].err
    /\ \A i \in 1..Len(fnResult[1].teams) :
         IF CoachRows(fnArgs, fnResult[1].teams[i].tid) = {}
         THEN fnResult[1].teams[i].coach = <<>>
         ELSE /\ fnResult[1].teams[i].coach # <<>>
              /\ \E k \in CoachRows(fnArgs, fnResult[1].teams[i].tid) :
                   fnArgs[k] = fnResult[1].teams[i].coach[1]
              /\ \A k \in CoachRows(fnArgs, fnResult[1].teams[i].tid) :
                   fnResult[1].teams[i].coach[1].User_ID <= fnArgs[k].User_ID
    /\ \A p \in Permutations(1..Len(fnArgs)) :
         Coaches(group_and_sort(Permuted(fnArgs, p))) = Coaches(fnResult[1])

\* The coach with the larger User_ID comes first in the input, the other
\* one is selected.
C13_Witness_LaterCoachSelected ==
  /\ fnResult # <<>>
  /\ Len(fnArgs) = 3
  /\ fnArgs[1] = GRow(9, 5, ROLE_COACH)
  /\ fnArgs[2] = GRow(9, 1, ROLE_ATHLETE)
  /\ fnArgs[3] = GRow(9, 2, ROLE_COACH)
  /\ fnResult[1].teams[1].coach = <<GRow(9, 2, ROLE_COACH)>>

\* C16: group_and_sort raises whenever a row lacks Team_ID, Team_Name,
\* Usertype_ID or User_ID.
C16_MissingColumnFailsFast ==
  (fnResult # <<>> /\ ~WellFormed(fnArgs)) => fnResult[1].err

(***************************************************************************)
(* The athlete order of group_and_sort on its own: called on every         *)
(* sequence of at most MaxAthletes athlete rows of one team, drawn from    *)
(* rows with numeric, partly numeric, blank and missing jersey values.     *)
(***************************************************************************)
MaxAthletes == 3

ARow(uid, name, jersey) ==
  [Event_ID |-> 1, Event_Name |-> <<"C", "u", "p">>, Team_Name |-> ShortName,
   Team_ID |-> 9, Division |-> <<"A">>, User_ID |-> uid, Name |-> name,
   Usertype_ID |-> ROLE_ATHLETE, Jersey_Num |-> jersey]

AthleteRows ==
  {ARow(1, <<"Z", "e", "d">>, <<"1", "2">>),
   ARow(2, <<"A", "m", "y">>, <<"1", "2">>),
   ARow(3, <<"B", "o", "b">>, <<>>),
   ARow(4, <<"C", "a", "t">>, <<"3">>),
   ARow(5, <<"A", "b", "e">>, <<"1", "2", "a">>),
   ARow(6, <<"D", "a", "n">>, None),
   ARow(7, <<"E", "v", "e">>, <<"2", "0", "0", "0", "0", "0", "0", "0", "0", "0">>),
   ARow(8, <<"F", "a", "y">>, <<" ", "7">>)}

SortInputs == UNION {[1..n -> AthleteRows] : n \in 0..MaxAthletes}

InitSort ==
  /\ WindowInit
  /\ probeEnv = [ironpdf |-> FALSE, license |-> FALSE, chrome |-> FALSE,
                 options |-> FALSE, warmup |-> FALSE, web |-> FALSE]
  /\ probeResult = NotProbed
  /\ fnArgs \in SortInputs
  /\ fnResult = <<>>

CallSort ==
  /\ fnResult = <<>>
  /\ fnResult' = <<group_and_sort(fnArgs)>>
  /\ UNCHANGED <<winVars, pc, outcome, runVars, probeEnv, probeResult, fnArgs>>

NextSort == CallSort

SpecSort == InitSort /\ [][NextSort]_vars

\* The athletes of the only team of a result.
SortedAthletes(g) == IF g.teams = <<>> THEN <<>> ELSE g.teams[1].athletes

\* The leading numeric prefix of a row's jersey value, <<>> when it has none.
JerseyPrefix(r) ==
  IF r.Jersey_Num = None THEN <<>> ELSE LeadingDigits(Strip(r.Jersey_Num, " "))

\* Row a may stand before row b: smaller prefix value, or equal prefix
\* values (or no prefix in either) and a name that is not greater.
NameOrdered(a, b) == a.Name = b.Name \/ StrLess(a.Name, b.Name)

JerseyOrdered(a, b) ==
  IF JerseyPrefix(a) # <<>> /\ JerseyPrefix(b) # <<>>
  THEN \/ Int_(JerseyPrefix(a)) < Int_(JerseyPrefix(b))
       \/ Int_(JerseyPrefix(a)) = Int_(JerseyPrefix(b)) /\ NameOrdered(a, b)
  ELSE IF JerseyPrefix(a) = <<>> /\ JerseyPrefix(b) = <<>> THEN NameOrdered(a, b)
  ELSE TRUE

SwapAt(rs, i) ==
  [k \in 1..Len(rs) |-> IF k = i THEN rs[i + 1] ELSE IF k = i + 1 THEN rs[i] ELSE rs[k]]

\* C14: the athletes are in ascending order of the value of the jersey's
\* numeric prefix, athletes with equal jersey keys in the order of their
\* names, and exchanging two neighbouring input rows (hence any reordering
\* of the input) leaves the result unchanged.
C14_AthletesByJerseyThenName ==
  fnResult # <<>> =>
    /\ \A i, j \in 1..Len(SortedAthletes(fnResult[1])) :
         i < j => JerseyOrdered(SortedAthletes(fnResult[1])[i], SortedAthletes(fnResult[1])[j])
    /\ \A i \in 1..(Len(fnArgs) - 1) :
         SortedAthletes(group_and_sort(SwapAt(fnArgs, i))) = SortedAthletes(fnResult[1])

\* C15: no athlete without a numeric jersey prefix stands before an athlete
\* with one.
C15_BlankJerseysLast ==
  fnResult # <<>> =>
    \A i, j \in 1..Len(SortedAthletes(fnResult[1])) :
      (i < j /\ JerseyPrefix(SortedAthletes(fnResult[1])[j]) # <<>>)
        => JerseyPrefix(SortedAthletes(fnResult[1])[i]) # <<>>

(***************************************************************************)
(* app/roster/render_html.py, paginate_rows: called on its own on row      *)
(* lists of every length up to MaxPageRows with positive capacities up to  *)
(* MaxCapacity.  A row is identified by its position in the list.  The     *)
(* call is followed statement by statement: fnResult holds its locals.     *)
(***************************************************************************)
MaxPageRows == 15
MaxCapacity == 7

Min(a, b) == IF a < b THEN a ELSE b

\* A slice that also takes the element at its upper index.
Slice_inclusive(rs, a, b) == SubSeq(rs, a + 1, Min(b + 1, Len(rs)))

\* rs[a : b] for 0 <= a <= b
Slice(rs, a, b) == SubSeq(rs, a + 1, Min(b, Len(rs)))

PaginateInputs ==
  [rows : {[k \in 1..n |-> k] : n \in 0..MaxPageRows},
   first_page_max : 1..MaxCapacity,
   next_pages_max : 1..MaxCapacity]

InitPaginate ==
  /\ WindowInit
  /\ probeEnv = [ironpdf |-> FALSE, license |-> FALSE, chrome |-> FALSE,
                 options |-> FALSE, warmup |-> FALSE, web |-> FALSE]
  /\ probeResult = NotProbed
  /\ fnArgs \in PaginateInputs
  /\ fnResult = <<>>

\* Lines 137-142: the early return for no rows, else the first chunk.
PaginateEnter ==
  /\ fnResult = <<>>
  /\ fnResult' =
       IF fnArgs.rows = <<>>
       THEN <<[out |-> <<>>, i |-> 0, returned |-> TRUE]>>
       ELSE <<[out |-> <<Slice(fnArgs.rows, 0, fnArgs.first_page_max)>>,
               i |-> fnArgs.first_page_max, returned |-> FALSE]>>
  /\ UNCHANGED <<winVars, pc, outcome, runVars, probeEnv, probeResult, fnArgs>>

\* Lines 143-146: one test of the while condition, then its body or the return.
PaginateLoop ==
  /\ fnResult # <<>>
  /\ ~fnResult[1].returned
  /\ fnResult' =
       IF fnResult[1].i < Len(fnArgs.rows)
       THEN <<[out |-> Append(fnResult[1].out,
                              Slice(fnArgs.rows, fnResult[1].i,
                                    fnResult[1].i + fnArgs.next_pages_max)),
               i |-> fnResult[1].i + fnArgs.next_pages_max,
               returned |-> FALSE]>>
       ELSE <<[fnResult[1] EXCEPT !.returned = TRUE]>>
  /\ UNCHANGED <<winVars, pc, outcome, runVars, probeEnv, probeResult, fnArgs>>

NextPaginate == PaginateEnter \/ PaginateLoop

SpecPaginate == InitPaginate /\ [][NextPaginate]_vars

RECURSIVE Concat(_)
Concat(chunks) ==
  IF chunks = <<>> THEN <<>>
  ELSE Concat(SubSeq(chunks, 1, Len(chunks) - 1)) \o chunks[Len(chunks)]

\* C17: the chunks returned, put together in order, are the rows; the first
\* chunk has min(len(rows), first_page_max) rows, every later chunk but the
\* last has next_pages_max rows, no chunk is empty, no rows give no chunks;
\* and the loop ends: it never makes more chunks than there are rows.
C17_PaginateChunks ==
  fnResult # <<>> =>
    /\ Len(fnResult[1].out) <= Len(fnArgs.rows)
    /\ \A k \in 1..Len(fnResult[1].out) : fnResult[1].out[k] # <<>>
    /\ fnResult[1].returned =>
         /\ Concat(fnResult[1].out) = fnArgs.rows
         /\ fnArgs.rows = <<>> => fnResult[1].out = <<>>
         /\ fnArgs.rows # <<>> =>
              Len(fnResult[1].out[1]) = Min(Len(fnArgs.rows), fnArgs.first_page_max)
         /\ \A k \in 2..(Len(fnResult[1].out) - 1) :
              Len(fnResult[1].out[k]) = fnArgs.next_pages_max

\* 15 rows with capacities 7 and 7 have given chunks of 7, 7 and 1 rows.
C17_Witness_15Rows ==
  /\ fnResult # <<>> /\ fnResult[1].returned
  /\ Len(fnArgs.rows) = 15 /\ fnArgs.first_page_max = 7 /\ fnArgs.next_pages_max = 7
  /\ Len(fnResult[1].out) = 3
  /\ Len(fnResult[1].out[1]) = 7 /\ Len(fnResult[1].out[2]) = 7
  /\ Len(fnResult[1].out[3]) = 1

(***************************************************************************)
(* app/roster/sanitize.py, ensure_unique on its own: called on candidate   *)
(* names in directories that hold any of the candidate, its first          *)
(* MaxProbe numbered names and a numbered name without the suffix.         *)
(***************************************************************************)
MaxProbe == 3

CandidateNames ==
  {<<"f", "o", "o", ".", "p", "d", "f">>,
   <<"a", ".", "b", ".", "p", "d", "f">>,
   ShortFile}

\* name-k.pdf for the candidate name.pdf
Numbered(cand, k) ==
  SubSeq(cand, 1, Len(cand) - Len(PdfSuffix)) \o <<"-">> \o Str(k) \o PdfSuffix

NamesAround(cand) ==
  {cand} \cup {Numbered(cand, k) : k \in 1..MaxProbe}
    \cup {SubSeq(cand, 1, Len(cand) - Len(PdfSuffix)) \o <<"-", "1">>}

UniqueInputs ==
  {a \in [path : CandidateNames,
          existing : SUBSET UNION {NamesAround(c) : c \in CandidateNames}] :
     a.existing \subseteq NamesAround(a.path)}

InitUnique ==
  /\ WindowInit
  /\ probeEnv = [ironpdf |-> FALSE, license |-> FALSE, chrome |-> FALSE,
                 options |-> FALSE, warmup |-> FALSE, web |-> FALSE]
  /\ probeResult = NotProbed
  /\ fnArgs \in UniqueInputs
  /\ fnResult = <<>>

\* The call returns a path; nothing in it writes to the directory.
CallEnsureUnique ==
  /\ fnResult = <<>>
  /\ fnResult' = <<[path |-> ensure_unique(fnArgs.path, fnArgs.existing),
                    existing |-> fnArgs.existing]>>
  /\ UNCHANGED <<winVars, pc, outcome, runVars, probeEnv, probeResult, fnArgs>>

NextUnique == CallEnsureUnique

SpecUnique == InitUnique /\ [][NextUnique]_vars

\* C18: ensure_unique returns the candidate when it does not exist, else
\* name-k.pdf for the smallest k >= 1 for which that name does not exist;
\* the path returned does not exist and the directory is as it was.
C18_EnsureUniqueSmallestFree ==
  fnResult # <<>> =>
    /\ fnArgs.path \notin fnArgs.existing => fnResult[1].path = fnArgs.path
    /\ fnArgs.path \in fnArgs.existing =>
         \E k \in 1..(MaxProbe + 1) :
           /\ fnResult[1].path = Numbered(fnArgs.path, k)
           /\ \A j \in 1..(k - 1) : Numbered(fnArgs.path, j) \in fnArgs.existing
    /\ fnResult[1].path \notin fnArgs.existing
    /\ fnResult[1].existing = fnArgs.existing

\* foo.pdf and foo-1.pdf exist, foo-2.pdf does not, foo-3.pdf does.
C18_Witness_SecondFree ==
  /\ fnResult # <<>>
  /\ fnArgs.path \in fnArgs.existing
  /\ Numbered(fnArgs.path, 1) \in fnArgs.existing
  /\ Numbered(fnArgs.path, 2) \notin fnArgs.existing
  /\ Numbered(fnArgs.path, 3) \in fnArgs.existing
  /\ fnResult[1].path = Numbered(fnArgs.path, 2)

(***************************************************************************)
(* app/roster/sanitize.py, pdf_filename on its own: called on every team   *)
(* name of at most MaxNameLen characters over NameChars, on the names of   *)
(* the examples and on names around the stem limit, with integer ids.      *)
(***************************************************************************)
MaxNameLen == 4

NameChars == {"a", " ", "\t", "#", "_", "."}

Tigers == <<"T", "i", "g", "e", "r", "s", " ", "1", "4", "U">>

LongNames == {Repeat("x", StemMax + k - 3) : k \in 0..MaxNameLen}

FilenameInputs ==
  [team_name : UNION {[1..n -> NameChars] : n \in 0..MaxNameLen} \cup {Tigers} \cup LongNames,
   team_id : {9, 8735}]

InitFilename ==
  /\ WindowInit
  /\ probeEnv = [ironpdf |-> FALSE, license |-> FALSE, chrome |-> FALSE,
                 options |-> FALSE, warmup |-> FALSE, web |-> FALSE]
  /\ probeResult = NotProbed
  /\ fnArgs \in FilenameInputs
  /\ fnResult = <<>>

CallPdfFilename ==
  /\ fnResult = <<>>
  /\ fnResult' = <<pdf_filename(fnArgs.team_name, Str(fnArgs.team_id))>>
  /\ UNCHANGED <<winVars, pc, outcome, runVars, probeEnv, probeResult, fnArgs>>

NextFilename == CallPdfFilename

SpecFilename == InitFilename /\ [][NextFilename]_vars

\* The transform as the specification words it, step by step.
Whitespace == {" ", "\t"}

RECURSIVE Squeeze(_, _)
Squeeze(s, cls) ==
  IF s = <<>> THEN <<>>
  ELSE IF Head(s) \notin cls THEN <<Head(s)>> \o Squeeze(Tail(s), cls)
  ELSE IF Len(s) > 1 /\ s[2] \in cls THEN Squeeze(Tail(s), cls)
  ELSE <<"_">> \o Squeeze(Tail(s), cls)

RECURSIVE LStripped(_)
LStripped(s) == IF s # <<>> /\ Head(s) = "_" THEN LStripped(Tail(s)) ELSE s

RECURSIVE RStripped(_)
RStripped(s) ==
  IF s # <<>> /\ s[Len(s)] = "_" THEN RStripped(SubSeq(s, 1, Len(s) - 1)) ELSE s

Worded(team_name, team_id) ==
  LET joined   == team_name \o <<"_">> \o team_id
      spaced   == [i \in 1..Len(joined) |->
                     IF joined[i] \in Whitespace THEN "_" ELSE joined[i]]
      cleaned  == Squeeze(spaced, AllChars \ AllowedChars)
      stripped == RStripped(LStripped(Squeeze(cleaned, {"_"})))
  IN  SubSeq(stripped, 1, Min(Len(stripped), 116)) \o <<".", "p", "d", "f">>

\* C19: pdf_filename gives what the worded transform gives; the result has
\* only characters of [A-Za-z0-9._-], ends in ".pdf" and has at most 120
\* characters.
C19_PdfFilenameTransform ==
  fnResult # <<>> =>
    /\ \A i \in 1..Len(fnResult[1]) : fnResult[1][i] \in AllowedChars
    /\ Len(fnResult[1]) <= 120
    /\ Len(fnResult[1]) >= 4
    /\ SubSeq(fnResult[1], Len(fnResult[1]) - 3, Len(fnResult[1])) = <<".", "p", "d", "f">>
    /\ Len(fnArgs.team_name) <= 10 =>
         fnResult[1] = Worded(fnArgs.team_name, Str(fnArgs.team_id))
    /\ Len(fnArgs.team_name) > 10 =>
         fnResult[1] =
           SubSeq(fnArgs.team_name \o <<"_">> \o Str(fnArgs.team_id), 1,
                  Min(116, Len(fnArgs.team_name) + 1 + Len(Str(fnArgs.team_id))))
             \o <<".", "p", "d", "f">>

\* ("Tigers 14U", 8735) has given "Tigers_14U_8735.pdf".
C19_Witness_Tigers ==
  /\ fnArgs.team_name = Tigers /\ fnArgs.team_id = 8735
  /\ fnResult =
       <<<<"T", "i", "g", "e", "r", "s", "_", "1", "4", "U", "_",
           "8", "7", "3", "5", ".", "p", "d", "f">>>>

(***************************************************************************)
(* app/roster/render_html.py, _img_src for the partner logo on its own:    *)
(* called with every combination of a URL, a local path and the state of   *)
(* the file at that path.                                                  *)
(***************************************************************************)
StartsWith(s, p) == Len(s) >= Len(p) /\ SubSeq(s, 1, Len(p)) = p

EndsWith(s, p) == Len(s) >= Len(p) /\ SubSeq(s, Len(s) - Len(p) + 1, Len(s)) = p

\* not x, for a value that is None or a string
Falsy(x) == x = None \/ x = <<>>

CanonicalHost == <<"h", "t", "t", "p", "s", ":", "/", "/", "f", "i", "l", "e", "s", ".", "s", "p", "o", "r", "t", "s", "t", "h", "r", "e", "a", "d", ".", "c", "o", "m">>

HttpUrl == <<"h", "t", "t", "p", ":", "/", "/", "x", ".", "i", "o", "/", "a">>

HttpsUrl == <<"h", "t", "t", "p", "s", ":", "/", "/", "x", ".", "i", "o", "/", "a">>

Urls == {None, <<>>, <<"/", "a">>, <<"a">>, HttpUrl, HttpsUrl}

Paths == {None, <<>>, <<"l", ".", "p", "n", "g">>, <<"l", ".", "j", "p", "g">>, <<"l">>}

\* The file at the path: absent, one whose read raises, an empty file, a
\* file with content.
FileStates == {"missing", "error", "empty", "bytes"}

ImgInputs ==
  {a \in [url : Urls, path : Paths, file : FileStates] :
     Falsy(a.path) => a.file = "missing"}

\* _read_bytes: the content, None when the path is no file or the read raises.
_read_bytes(file) == IF file \in {"empty", "bytes"} THEN file ELSE "None"

Mime(path) ==
  IF EndsWith(path, <<".", "p", "n", "g">>) THEN "image/png"
  ELSE IF EndsWith(path, <<".", "j", "p", "g">>) THEN "image/jpeg"
  ELSE "application/octet-stream"

NoImage == [kind |-> "none"]

\* _data_uri_from_path: `if not b: return None` also rejects an empty file.
_data_uri_from_path(path, file) ==
  IF _read_bytes(file) \in {"None", "empty"} THEN NoImage
  ELSE [kind |-> "data", mime |-> Mime(path), file |-> path]

normalize_cdn_url(url) ==
  IF Falsy(url) THEN NoImage
  ELSE IF StartsWith(url, <<"/">>) THEN [kind |-> "str", value |-> CanonicalHost \o url]
  ELSE IF StartsWith(url, <<"h", "t", "t", "p", ":", "/", "/">>)
            \/ StartsWith(url, <<"h", "t", "t", "p", "s", ":", "/", "/">>)
  THEN [kind |-> "str", value |-> url]
  ELSE [kind |-> "str", value |-> CanonicalHost \o <<"/">> \o url]

_img_src(url, path, file) ==
  IF ~Falsy(path)
  THEN IF _data_uri_from_path(path, file) # NoImage
       THEN _data_uri_from_path(path, file)
       ELSE [kind |-> "str", value |-> path]
  ELSE IF ~Falsy(url) THEN normalize_cdn_url(url)
  ELSE NoImage

\* _thead_html: the masthead has the logo element when partner_logo is truthy.
HasLogoElement(partner_logo) ==
  partner_logo.kind = "data" \/ (partner_logo.kind = "str" /\ partner_logo.value # <<>>)

InitImg ==
  /\ WindowInit
  /\ probeEnv = [ironpdf |-> FALSE, license |-> FALSE, chrome |-> FALSE,
                 options |-> FALSE, warmup |-> FALSE, web |-> FALSE]
  /\ probeResult = NotProbed
  /\ fnArgs \in ImgInputs
  /\ fnResult = <<>>

\* render_team, line 247, and the masthead made from its result.
CallImgSrc ==
  /\ fnResult = <<>>
  /\ fnResult' = <<[src |-> _img_src(fnArgs.url, fnArgs.path, fnArgs.file),
                    element |-> HasLogoElement(_img_src(fnArgs.url, fnArgs.path, fnArgs.file))]>>
  /\ UNCHANGED <<winVars, pc, outcome, runVars, probeEnv, probeResult, fnArgs>>

NextImg == CallImgSrc

SpecImg == InitImg /\ [][NextImg]_vars

\* C20: a supplied path that can be read gives a data URI of that file;
\* otherwise a supplied URL is used, unchanged when absolute and under the
\* canonical host when not; a path that cannot be read, with no URL, gives
\* no image element.
C20_ImageResolution ==
  fnResult # <<>> =>
    /\ (~Falsy(fnArgs.path) /\ fnArgs.file = "bytes")
         => (fnResult[1].src.kind = "data" /\ fnResult[1].src.file = fnArgs.path)
    /\ (~(~Falsy(fnArgs.path) /\ fnArgs.file = "bytes") /\ ~Falsy(fnArgs.url))
         => /\ fnResult[1].src.kind = "str"
            /\ fnResult[1].src.value \in
                 {fnArgs.url, CanonicalHost \o fnArgs.url, CanonicalHost \o <<"/">> \o fnArgs.url}
            /\ StartsWith(fnResult[1].src.value, <<"h", "t", "t", "p">>)
    /\ (~(~Falsy(fnArgs.path) /\ fnArgs.file = "bytes") /\ Falsy(fnArgs.url))
         => ~fnResult[1].element

(***************************************************************************)
(* app/roster/render_html.py, render_team, and its caller                  *)
(* MainWindow._render_html: the rows of a window are grouped and the teams *)
(* of the grouping are rendered, in any order and repeatedly.  A document  *)
(* is the record of what its HTML holds.  fnArgs is the rows, the logo     *)
(* references and what the process finds on disk; fnResult holds the teams *)
(* of the last grouping and the documents returned so far.                 *)
(***************************************************************************)
MaxRenders == 2

FIRST_PAGE_MAX_ROWS == 7
NEXT_PAGES_MAX_ROWS == 7

NoneText == <<"N", "o", "n", "e">>

\* str(val) of None or a string
PyStr(val) == IF val = None THEN NoneText ELSE val

\* str.strip()
str_strip(s) ==
  LET others == {i \in 1..Len(s) : s[i] \notin {" ", "\t"}}
  IN  IF others = {} THEN <<>>
      ELSE SubSeq(s, CHOOSE i \in others : \A j \in others : i <= j,
                     CHOOSE i \in others : \A j \in others : j <= i)

EscapeChar(c) ==
  IF c = "&" THEN <<"&", "a", "m", "p", ";">>
  ELSE IF c = "<" THEN <<"&", "l", "t", ";">>
  ELSE IF c = ">" THEN <<"&", "g", "t", ";">>
  ELSE <<c>>

\* html.escape(s)
RECURSIVE html_escape(_)
html_escape(s) ==
  IF s = <<>> THEN <<>>
  ELSE html_escape(SubSeq(s, 1, Len(s) - 1)) \o EscapeChar(s[Len(s)])

\* _safe(val)
_safe(val) == IF val = None THEN <<>> ELSE html_escape(PyStr(val))

\* str(team.get(k, "")).strip()
TextField(d, k) == str_strip(PyStr(Get(d, k, <<>>)))

\* The while loop of paginate_rows from index i on.
RECURSIVE PaginateFrom(_, _, _)
PaginateFrom(rs, i, next_pages_max) ==
  IF i < Len(rs)
  THEN <<Slice(rs, i, i + next_pages_max)>>
         \o PaginateFrom(rs, i + next_pages_max, next_pages_max)
  ELSE <<>>

paginate_rows(rs, first_page_max, next_pages_max) ==
  IF rs = <<>> THEN <<>>
  ELSE <<Slice(rs, 0, first_page_max)>> \o PaginateFrom(rs, first_page_max, next_pages_max)

\* _tbody_rows_html: the cells of one row.
BodyRow(r) ==
  [pic  |-> normalize_cdn_url(Get(r, "Profile_Pic", None)),
   num  |-> _safe(Get(r, "Jersey_Num", None)),
   name |-> _safe(Get(r, "Name", None)),
   bday |-> _safe(Get(r, "Birthday", None))]

_tbody_rows_html(chunk) == [k \in 1..Len(chunk) |-> BodyRow(chunk[k])]

ColumnLabels == <<"Photo", "#", "Name", "Birthday", "Comments">>

_thead_html(team_name, coach_name, division, coach_phone, event_name, partner_logo) ==
  [logo     |-> IF HasLogoElement(partner_logo) THEN <<partner_logo>> ELSE <<>>,
   title    |-> IF event_name # <<>> THEN _safe(event_name) ELSE _safe(team_name),
   team     |-> _safe(team_name),
   coach    |-> _safe(coach_name),
   division |-> _safe(division),
   phone    |-> _safe(coach_phone),
   cols     |-> ColumnLabels]

_tfoot_html(footer_logo) ==
  [logo |-> IF HasLogoElement(footer_logo) THEN <<footer_logo>> ELSE <<>>]

\* A table that leaves the masthead and the footer to the first table.
TableOf_first_only(k, thead, tbody, tfoot) ==
  [thead |-> IF k = 1 THEN <<thead>> ELSE <<>>, tbody |-> tbody,
   tfoot |-> IF k = 1 THEN <<tfoot>> ELSE <<>>]

\* Line 302: the k-th table of the document.
TableOf(k, thead, tbody, tfoot) ==
  [thead |-> <<thead>>, tbody |-> tbody, tfoot |-> <<tfoot>>]

\* x or y, for two strings
OrElse(x, y) == IF x # <<>> THEN x ELSE y

\* Lines 239-244.
CoachField(team, coach, k, legacy) ==
  IF coach # <<>> THEN OrElse(TextField(coach[1], k), TextField(team, legacy))
  ELSE TextField(team, legacy)

BundledLogo == [kind |-> "data", mime |-> "image/png", file |-> <<"s", "t">>]

\* Lines 249-263: the explicit footer logo, else the one found on disk.
FooterLogo(footer_logo_src, ambient) ==
  IF HasLogoElement(footer_logo_src) THEN footer_logo_src
  ELSE IF ambient.footer THEN BundledLogo ELSE NoImage

\* Lines 266-273.
BootstrapTag(ambient) == IF ambient.bootstrap THEN "style" ELSE "link"

Tables(slices, thead, tfoot) ==
  [k \in 1..Len(slices) |-> TableOf(k, thead, _tbody_rows_html(slices[k]), tfoot)]

\* render_team(team, coach, partner_logo_url, partner_logo_path,
\* footer_logo_src), with the file at the logo path and what the process
\* finds on disk for the style sheet and the footer logo.
render_team(team, coach, url, path, file, footer_logo_src, ambient) ==
  [bootstrap |-> BootstrapTag(ambient),
   tables |->
     Tables(paginate_rows(Get(team, "athletes", <<>>),
                          FIRST_PAGE_MAX_ROWS, NEXT_PAGES_MAX_ROWS),
            _thead_html(TextField(team, "Team_Name"),
                        CoachField(team, coach, "Name", "Coach_Name"),
                        TextField(team, "Division"),
                        CoachField(team, coach, "Phone", "Coach_Phone"),
                        TextField(team, "Event_Name"),
                        _img_src(url, path, file)),
            _tfoot_html(FooterLogo(footer_logo_src, ambient)))]

\* MainWindow._render_html, lines 357-361: dict(team) with the fields of
\* team["meta"] at the top level.
Adapted(team) ==
  [athletes   |-> team.athletes,
   Team_Name  |-> team.meta.Team_Name,
   Team_ID    |-> team.meta.Team_ID,
   Division   |-> team.meta.Division,
   Event_Name |-> team.meta.Event_Name]

\* A render that consumes the athlete list of the team it is given.
TeamAfterRender_drained(team) == [team EXCEPT !.athletes = <<>>]

\* The team object once render_team has returned: dict(team) (main_window
\* line 359) and list(team.get("athletes")) (render_html line 279) are
\* copies, the object is as it was.
TeamAfterRender(team) == team

\* MainWindow._render_html(team)
RenderCall(team, a) ==
  render_team(Adapted(team), team.coach, a.logo.url, a.logo.path, a.logo.file,
              IF a.footer THEN BundledLogo ELSE NoImage, a.ambient)

EventKinds == {"name", "null", "absent", "empty"}

EventName == <<"C", "&", "p">>

RRow(tid, uid, role, name, jersey, event) ==
  IF event = "absent"
  THEN [Event_ID |-> 1, Team_Name |-> ShortName, Team_ID |-> tid, Division |-> <<"A">>,
        User_ID |-> uid, Name |-> name, Usertype_ID |-> role, Jersey_Num |-> jersey,
        Phone |-> <<"5">>]
  ELSE [Event_ID |-> 1,
        Event_Name |-> IF event = "name" THEN EventName
                       ELSE IF event = "null" THEN None ELSE <<>>,
        Team_Name |-> ShortName, Team_ID |-> tid, Division |-> <<"A">>,
        User_ID |-> uid, Name |-> name, Usertype_ID |-> role, Jersey_Num |-> jersey,
        Phone |-> <<"5">>]

\* Team 9 with n athletes whose jersey numbers fall as their user ids rise
\* and a coach, then team 10 with one athlete.
RosterRows(n, event) ==
  [k \in 1..n |-> RRow(9, k, ROLE_ATHLETE, <<"P">> \o Str(k), Str(n + 1 - k), event)]
    \o <<RRow(9, 50, ROLE_COACH, <<"K">>, None, event),
         RRow(10, 51, ROLE_ATHLETE, <<"Q">>, <<"4">>, event)>>

LogoInputs ==
  {a \in ImgInputs : /\ a.url \in {None, <<"a">>}
                     /\ a.path \in {None, <<"l", ".", "p", "n", "g">>}
                     /\ a.file \in {"missing", "bytes"}}

RenderInputs ==
  [n : 0..MaxPageRows, event : EventKinds, logo : LogoInputs, footer : BOOLEAN,
   ambient : [bootstrap : BOOLEAN, footer : BOOLEAN]]

InitRender ==
  /\ WindowInit
  /\ probeEnv = [ironpdf |-> FALSE, license |-> FALSE, chrome |-> FALSE,
                 options |-> FALSE, warmup |-> FALSE, web |-> FALSE]
  /\ probeResult = NotProbed
  /\ fnArgs \in RenderInputs
  /\ fnResult = <<>>

\* teams = group_and_sort(self._rows), as on_preview and on_export start.
RenderGroup ==
  /\ \/ fnResult = <<>>
     \/ fnResult # <<>> /\ fnResult[1].docs # <<>> /\ ~fnResult[1].regrouped
  /\ fnResult' =
       <<[teams |-> group_and_sort(RosterRows(fnArgs.n, fnArgs.event)).teams,
          docs |-> IF fnResult = <<>> THEN <<>> ELSE fnResult[1].docs,
          regrouped |-> fnResult # <<>>]>>
  /\ UNCHANGED <<winVars, pc, outcome, runVars, probeEnv, probeResult, fnArgs>>

\* html = self._render_html(team) for a team of the grouping.
RenderTeam ==
  /\ fnResult # <<>>
  /\ Len(fnResult[1].docs) < MaxRenders
  /\ \E i \in 1..Len(fnResult[1].teams) :
       fnResult' =
         <<[fnResult[1] EXCEPT
              !.docs = Append(@, [i |-> i, html |-> RenderCall(fnResult[1].teams[i], fnArgs)]),
              !.teams[i] = TeamAfterRender(@)]>>
  /\ UNCHANGED <<winVars, pc, outcome, runVars, probeEnv, probeResult, fnArgs>>

NextRender == RenderGroup \/ RenderTeam

SpecRender == InitRender /\ [][NextRender]_vars

\* The team with index i of a fresh grouping of the rows.
FreshTeam(i) == group_and_sort(RosterRows(fnArgs.n, fnArgs.event)).teams[i]

C22_PreviewSmallestTeamId ==
  (pc = "returned" /\ outcome.h \in {"preview", "load"} /\ rendered # {}) =>
    \A t \in rendered : \A k \in 1..Len(rows) : Int_(t.tid) <= rows[k].Team_ID

(***************************************************************************)
(* app/licensing.py, get_license on its own: called in every combination   *)
(* of the environment variables and of the files at the license paths.  A  *)
(* variable is None when unset; a file is None when it is no file or its   *)
(* read raises, else its text.                                             *)
(***************************************************************************)
EnvValues == {None, <<>>, <<" ">>, <<" ", "E", "\t">>}

LicenseInputs ==
  [IRONPDF_LICENSE      : {None, <<" ", "E", "\t">>},
   IRONPDF_LICENSE_KEY  : EnvValues,
   IRONPDF_LICENSE_FILE : {None, <<>>, <<"k">>},
   env_file             : {None, <<"F", " ">>},
   local                : {None, <<" ">>, <<"L">>},
   linux                : {None, <<"X">>},
   macos                : {None, <<"M">>},
   APPDATA              : {None, <<"a">>},
   windows              : {None, <<"W">>}]

\* licensing._read_text: the stripped text of the file, None when it is no
\* file, cannot be read or is blank.
license_read_text(text) ==
  IF text = None THEN None
  ELSE IF str_strip(text) = <<>> THEN None ELSE str_strip(text)

\* _platform_paths(), as the texts of the files at the paths
_platform_paths(a) ==
  <<a.local, a.linux, a.macos>> \o (IF ~Falsy(a.APPDATA) THEN <<a.windows>> ELSE <<>>)

\* Lines 55-59: the first path that gives a value.
FirstLicense(texts) ==
  LET found == {i \in 1..Len(texts) : license_read_text(texts[i]) # None}
  IN  IF found = {} THEN None
      ELSE license_read_text(texts[CHOOSE i \in found : \A j \in found : i <= j])

get_license(a) ==
  IF ~Falsy(a.IRONPDF_LICENSE_KEY)
  THEN IF str_strip(a.IRONPDF_LICENSE_KEY) = <<>> THEN None
       ELSE str_strip(a.IRONPDF_LICENSE_KEY)
  ELSE IF ~Falsy(a.IRONPDF_LICENSE_FILE) /\ license_read_text(a.env_file) # None
  THEN license_read_text(a.env_file)
  ELSE FirstLicense(_platform_paths(a))

InitLicense ==
  /\ WindowInit
  /\ probeEnv = [ironpdf |-> FALSE, license |-> FALSE, chrome |-> FALSE,
                 options |-> FALSE, warmup |-> FALSE, web |-> FALSE]
  /\ probeResult = NotProbed
  /\ fnArgs \in LicenseInputs
  /\ fnResult = <<>>

CallGetLicense ==
  /\ fnResult = <<>>
  /\ fnResult' = <<get_license(fnArgs)>>
  /\ UNCHANGED <<winVars, pc, outcome, runVars, probeEnv, probeResult, fnArgs>>

NextLicense == CallGetLicense

SpecLicense == InitLicense /\ [][NextLicense]_vars

\* The text a file source yields: stripped, None when there is none.
Yielded(text) == IF text = None \/ str_strip(text) = <<>> THEN None ELSE str_strip(text)

\* C23: the license is the value of IRONPDF_LICENSE when it is set; else the
\* content of the file IRONPDF_LICENSE_FILE names; else that of ./.license;
\* else that of the first per-platform path that has one; else None.
C23_LicensePrecedence ==
  fnResult # <<>> =>
    fnResult[1] =
      IF ~Falsy(fnArgs.IRONPDF_LICENSE) THEN str_strip(fnArgs.IRONPDF_LICENSE)
      ELSE IF ~Falsy(fnArgs.IRONPDF_LICENSE_FILE) /\ Yielded(fnArgs.env_file) # None
      THEN Yielded(fnArgs.env_file)
      ELSE IF Yielded(fnArgs.local) # None THEN Yielded(fnArgs.local)
      ELSE IF Yielded(fnArgs.linux) # None THEN Yielded(fnArgs.linux)
      ELSE IF Yielded(fnArgs.macos) # None THEN Yielded(fnArgs.macos)
      ELSE IF ~Falsy(fnArgs.APPDATA) THEN Yielded(fnArgs.windows)
      ELSE None

\* The names of the athletes of team i of the roster in ascending order of
\* their jersey numbers.
NamesByJersey(i) ==
  IF i = 1 THEN [k \in 1..fnArgs.n |-> <<"P">> \o Str(fnArgs.n + 1 - k)]
  ELSE <<<<"Q">>>>

BodyNames(tables) == Concat([k \in 1..Len(tables) |->
                               [j \in 1..Len(tables[k].tbody) |-> tables[k].tbody[j].name]])

\* C24: a document has one table per chunk of at most seven athletes, in
\* order; every table has its masthead with the column labels and its
\* footer; the bodies of the tables, put together, are the athletes of the
\* team in sorted order, each once.
C24_TablePerChunk ==
  fnResult # <<>> =>
    \A d \in 1..Len(fnResult[1].docs) :
      \E doc \in {fnResult[1].docs[d]} :
        /\ Len(doc.html.tables) = (Len(NamesByJersey(doc.i)) + 6) \div 7
        /\ \A k \in 1..Len(doc.html.tables) :
             /\ doc.html.tables[k].thead # <<>>
             /\ doc.html.tables[k].thead[1].cols = ColumnLabels
             /\ doc.html.tables[k].thead[1].team = ShortName
             /\ doc.html.tables[k].tfoot # <<>>
             /\ Len(doc.html.tables[k].tbody) =
                  Min(7, Len(NamesByJersey(doc.i)) - 7 * (k - 1))
        /\ BodyNames(doc.html.tables) = NamesByJersey(doc.i)

\* A team of fifteen athletes has been rendered into three tables, the last
\* with a single row.
C24_Witness_ThreeTables ==
  /\ fnResult # <<>> /\ fnResult[1].docs # <<>>
  /\ fnArgs.n = 15 /\ fnResult[1].docs[1].i = 1
  /\ Len(fnResult[1].docs[1].html.tables) = 3
  /\ Len(fnResult[1].docs[1].html.tables[3].tbody) = 1
  /\ fnResult[1].docs[1].html.tables[3].thead # <<>>

\* C25: the title of every masthead of a document is the event name of the
\* team when its rows have one, and the team name when the rows have no
\* Event_Name column or a null or empty Event_Name.
C25_TitleEventElseTeam ==
  fnResult # <<>> =>
    \A d \in 1..Len(fnResult[1].docs) :
      \A k \in 1..Len(fnResult[1].docs[d].html.tables) :
        fnResult[1].docs[d].html.tables[k].thead[1].title =
          IF fnArgs.event = "name" THEN <<"C", "&", "a", "m", "p", ";", "p">>
          ELSE ShortName

(***************************************************************************)
(* app/roster/engine_web.py, WebEnginePdf.render_pdf on its own.  fnArgs   *)
(* says which statement of the try block raises, if any; fnResult holds    *)
(* the locals of the call, the clock, the state of the page and the Qt     *)
(* events posted and not yet delivered.  Time is counted in seconds.       *)
(***************************************************************************)
TimeoutS == 30

MaxOverrun == 1

WebInputs == [raises : {"none", "view", "setHtml", "import"}, printRaises : BOOLEAN]

InitWeb ==
  /\ WindowInit
  /\ probeEnv = [ironpdf |-> FALSE, license |-> FALSE, chrome |-> FALSE,
                 options |-> FALSE, warmup |-> FALSE, web |-> FALSE]
  /\ probeResult = NotProbed
  /\ fnArgs \in WebInputs
  /\ fnResult = <<>>

WebUnchanged == UNCHANGED <<winVars, pc, outcome, runVars, probeEnv, probeResult, fnArgs>>

\* Lines 12-37 and 41-42: the page is set up and the deadline taken, or a
\* statement raises and the call returns False.
WebStart ==
  /\ fnResult = <<>>
  /\ fnResult' =
       IF fnArgs.raises # "none"
       THEN <<[at |-> "returned", finished |-> <<>>, now |-> 0, deadline |-> 0,
               load |-> "none", print |-> "none", posted |-> <<>>,
               result |-> <<FALSE>>, caught |-> TRUE]>>
       ELSE <<[at |-> "loop", finished |-> <<>>, now |-> 0, deadline |-> 0 + TimeoutS,
               load |-> "loading", print |-> "none", posted |-> <<>>,
               result |-> <<>>, caught |-> FALSE]>>
  /\ WebUnchanged

\* time.time() advances.
WebTick ==
  /\ fnResult # <<>>
  /\ fnResult[1].at = "loop"
  /\ fnResult[1].now < fnResult[1].deadline + MaxOverrun
  /\ fnResult' = <<[fnResult[1] EXCEPT !.now = @ + 1]>>
  /\ WebUnchanged

\* The page finishes loading, well or not: Qt posts loadFinished(ok).
LoadFinished ==
  /\ fnResult # <<>>
  /\ fnResult[1].at = "loop"
  /\ fnResult[1].load = "loading"
  /\ \E ok \in BOOLEAN :
       fnResult' = <<[fnResult[1] EXCEPT
                        !.load = "done",
                        !.posted = Append(@, [signal |-> "loadFinished", ok |-> ok])]>>
  /\ WebUnchanged

\* The print finishes, well or not: Qt posts pdfPrintingFinished(path, ok).
PdfPrintingFinished ==
  /\ fnResult # <<>>
  /\ fnResult[1].at = "loop"
  /\ fnResult[1].print = "printing"
  /\ \E ok \in BOOLEAN :
       fnResult' = <<[fnResult[1] EXCEPT
                        !.print = "done",
                        !.posted = Append(@, [signal |-> "pdfPrintingFinished", ok |-> ok])]>>
  /\ WebUnchanged

\* on_loaded and on_pdf_finished, run on the locals w for the event ev; an
\* exception raised by printToPdf inside the slot does not reach render_pdf.
Deliver(w, ev) ==
  IF ev.signal = "pdfPrintingFinished"
  THEN [w EXCEPT !.finished = Append(@, [ok |-> ev.ok, time |-> w.now, by |-> "print"])]
  ELSE IF ~ev.ok
  THEN [w EXCEPT !.finished = Append(@, [ok |-> FALSE, time |-> w.now, by |-> "load"])]
  ELSE IF fnArgs.printRaises THEN [w EXCEPT !.print = "failed"]
  ELSE [w EXCEPT !.print = "printing"]

RECURSIVE DeliverAll(_, _)
DeliverAll(w, evs) ==
  IF evs = <<>> THEN w ELSE DeliverAll(Deliver(w, evs[1]), SubSeq(evs, 2, Len(evs)))

\* Line 38: while not finished and time.time() < deadline
LoopGuard(w) == w.finished = <<>> /\ w.now < w.deadline

\* Line 39: one iteration, QApplication.processEvents() delivers what is posted.
WebProcessEvents ==
  /\ fnResult # <<>>
  /\ fnResult[1].at = "loop"
  /\ LoopGuard(fnResult[1])
  /\ fnResult' = <<DeliverAll([fnResult[1] EXCEPT !.posted = <<>>], fnResult[1].posted)>>
  /\ WebUnchanged

\* A result that is True as soon as anything was signalled.
ReturnValue_any(finished) == finished # <<>>

\* Line 40: bool(finished and finished[-1])
ReturnValue(finished) == finished # <<>> /\ finished[Len(finished)].ok

WebReturn ==
  /\ fnResult # <<>>
  /\ fnResult[1].at = "loop"
  /\ ~LoopGuard(fnResult[1])
  /\ fnResult' = <<[fnResult[1] EXCEPT !.at = "returned",
                                       !.result = <<ReturnValue(fnResult[1].finished)>>]>>
  /\ WebUnchanged

NextWeb ==
  \/ WebStart
  \/ WebTick
  \/ LoadFinished
  \/ PdfPrintingFinished
  \/ WebProcessEvents
  \/ WebReturn

\* The thread runs and the clock advances; the page owes no signal.
SpecWeb ==
  /\ InitWeb
  /\ [][NextWeb]_vars
  /\ WF_vars(WebStart)
  /\ WF_vars(WebTick)
  /\ WF_vars(WebReturn)

WebReturned == fnResult # <<>> /\ fnResult[1].at = "returned"

WebResultOk ==
  WebReturned =>
    /\ fnResult[1].result \in {<<TRUE>>, <<FALSE>>}
    /\ fnResult[1].result = <<TRUE>> =>
         \E k \in 1..Len(fnResult[1].finished) :
           /\ fnResult[1].finished[k].by = "print"
           /\ fnResult[1].finished[k].ok
           /\ fnResult[1].finished[k].time < fnResult[1].deadline
    /\ (\E k \in 1..Len(fnResult[1].finished) : ~fnResult[1].finished[k].ok)
         => fnResult[1].result = <<FALSE>>
    /\ fnResult[1].finished = <<>> => fnResult[1].result = <<FALSE>>
    /\ fnArgs.raises # "none" => fnResult[1].result = <<FALSE>>

RETRIES == 3

BACKOFF_BASE_MS == 750

\* What stops an attempt: a missing environment variable (DBError raised by
\* _conn_params), the connection, the execution, the fetch.
FailureKinds == {"config", "connect", "execute", "fetch"}

DbInputs == [fn : {"_run_query", "health_check"}, rows : {<<>>, <<1>>, <<1, 2>>}]

InitDb ==
  /\ WindowInit
  /\ probeEnv = [ironpdf |-> FALSE, license |-> FALSE, chrome |-> FALSE,
                 options |-> FALSE, warmup |-> FALSE, web |-> FALSE]
  /\ probeResult = NotProbed
  /\ fnArgs \in DbInputs
  /\ fnResult = <<>>

DbUnchanged == UNCHANGED <<winVars, pc, outcome, runVars, probeEnv, probeResult, fnArgs>>

\* for attempt in range(1, RETRIES + 1): the first iteration
DbEnter ==
  /\ fnResult = <<>>
  /\ fnResult' = <<[at |-> "try", attempt |-> 1, log |-> <<>>, sleeps |-> <<>>,
                    result |-> "none", rows |-> <<>>]>>
  /\ DbUnchanged

RECURSIVE Pow2(_)
Pow2(n) == IF n = 0 THEN 1 ELSE 2 * Pow2(n - 1)

\* BACKOFF_BASE_S * (2 ** (attempt - 1))
Backoff(attempt) == BACKOFF_BASE_MS * Pow2(attempt - 1)

\* A test that gives up one failure late.
GiveUp_late(attempt) == attempt > RETRIES

\* if attempt >= RETRIES
GiveUp(attempt) == attempt >= RETRIES

\* What the function does once the loop is left without a result: line 88
\* raises DBError, line 69 (or 71) returns False.
Exhausted(w) ==
  IF fnArgs.fn = "_run_query" THEN [w EXCEPT !.at = "raised", !.result = "DBError"]
  ELSE [w EXCEPT !.at = "returned", !.result = "False"]

\* The try block of one iteration succeeds.
DbSucceed ==
  /\ fnResult # <<>>
  /\ fnResult[1].at = "try"
  /\ fnResult' =
       <<[fnResult[1] EXCEPT
            !.log = Append(@, "ok"),
            !.at = "returned",
            !.result = IF fnArgs.fn = "_run_query" THEN "rows" ELSE "True",
            !.rows = IF fnArgs.fn = "_run_query" THEN fnArgs.rows ELSE <<>>]>>
  /\ DbUnchanged

\* The try block of one iteration raises: the except clause.
DbFail ==
  /\ fnResult # <<>>
  /\ fnResult[1].at = "try"
  /\ \E kind \in FailureKinds :
       fnResult' =
         IF GiveUp(fnResult[1].attempt)
         THEN <<Exhausted([fnResult[1] EXCEPT !.log = Append(@, kind)])>>
         ELSE <<[fnResult[1] EXCEPT !.log = Append(@, kind), !.at = "sleep"]>>
  /\ DbUnchanged

\* time.sleep(...), then the next iteration if the range has one.
DbSleep ==
  /\ fnResult # <<>>
  /\ fnResult[1].at = "sleep"
  /\ fnResult' =
       IF fnResult[1].attempt < RETRIES
       THEN <<[fnResult[1] EXCEPT !.sleeps = Append(@, Backoff(fnResult[1].attempt)),
                                  !.attempt = @ + 1, !.at = "try"]>>
       ELSE <<Exhausted([fnResult[1] EXCEPT
                           !.sleeps = Append(@, Backoff(fnResult[1].attempt))])>>
  /\ DbUnchanged

NextDb == DbEnter \/ DbSucceed \/ DbFail \/ DbSleep

SpecDb == InitDb /\ [][NextDb]_vars

DbEnded == fnResult # <<>> /\ fnResult[1].at \in {"returned", "raised"}

C28_EngineCachedPerWindow ==
  [][/\ pdf_engine # <<>> => pdf_engine' = pdf_engine
     /\ engineProbes' = engineProbes + 1 =>
          /\ pc = "get_engine" /\ pdf_engine = <<>> /\ engineProbes = 0
          /\ (pdf_engine' = <<>>) = (pc' = "returned" /\ outcome'.kind = "raised")
     /\ (pc = "get_engine" /\ pdf_engine = <<>>) => engineProbes' = engineProbes + 1
     /\ \A j \in 1..Len(jobs') :
          jobs'[j].thread = "ui" =>
            /\ pdf_engine' # <<>>
            /\ jobs'[j].kind = pdf_engine'[1].kind
            /\ jobs'[j].inst = 0
            /\ engineProbes' <= 1
    ]_vars

\* A serial job is rendered in a run that selected no engine: the engine
\* was cached by an earlier run.
C28_Witness_SecondRunUsesCache ==
  /\ pc = "serial_render"
  /\ engineProbes = 0
  /\ pdf_engine # <<>>

\* C29: a load that leaves the rows of the window as they are (cancelled,
\* database error, no rows returned) leaves its partner-logo URL as it is.
C29_LogoFollowsRows ==
  [][(rows # <<>> /\ outcome'.h = "load" /\ outcome'.kind # "loaded")
       => (rows' = rows /\ partner_logo_url' = partner_logo_url)]_vars

\* The file name without its ".pdf".
StemOf(name) == SubSeq(name, 1, Len(name) - Len(PdfSuffix))

\* C30: the stem of the file name pdf_filename returns has at most 116
\* characters, no two underscores in a row, and no underscore at either
\* end, also when the name was cut.
C30_StemBoundedAndClean ==
  fnResult # <<>> =>
    /\ EndsWith(fnResult[1], PdfSuffix)
    /\ Len(StemOf(fnResult[1])) <= 116
    /\ \A i \in 1..(Len(StemOf(fnResult[1])) - 1) :
         ~(StemOf(fnResult[1])[i] = "_" /\ StemOf(fnResult[1])[i + 1] = "_")
    /\ StemOf(fnResult[1]) # <<>> =>
         /\ StemOf(fnResult[1])[1] # "_"
         /\ StemOf(fnResult[1])[Len(StemOf(fnResult[1]))] # "_"

====
